---- MODULE Spec2Model ----
(***************************************************************************)
(* Layout-matching engine of AppUsageExtractor (src/src/layout_analysis.py *)
(* and the older src/src/detection package).                               *)
(*                                                                         *)
(* Numbers.  Detections carry integer x, y, w, h (processor.py:119 maps    *)
(* int over the detector's box).  Icon centres are integers (x + w // 2),  *)
(* name/usage centroids are half-integers (x + w / 2.0); the model keeps   *)
(* every quantity exact: centroids and ray end points are handed to        *)
(* distance_to_segment in half-pixel units, distances are squared          *)
(* distances kept as reduced fractions <<num, den>>.  The float rounding   *)
(* of numpy is not modelled.                                               *)
(***************************************************************************)
EXTENDS Integers, Sequences, FiniteSets, TLC

VARIABLES
    pc,                       \* position inside the operation under way
    detections,               \* detections_for_layout, in input order
    image_shape,              \* <<height, width>>
    reference_line,           \* Nil or <<orientation, start, end>>
    icon_search_lines,        \* sequence of [icon, search_line]
    usage_matches,            \* dict usage_key -> icon_key (insertion order)
    min_distances_usage,      \* dict usage_key -> squared distance
    matched_data,             \* sequence of [app_usage, app_icon, app_name]
    icons_matched_to_usage,   \* set of icon keys
    name_matches,             \* dict name_key -> icon_key
    min_distances_name,       \* dict name_key -> squared distance
    usage_to_name_map,        \* fallback dict usage_key -> name_key
    min_usage_name_dist,      \* fallback dict usage_key -> squared distance
    unmatched_app_names_keys,
    unmatched_app_usages_keys,
    unmatched_app_icons_keys,
    debug_info,               \* the unmatched lists returned to the caller
    loop_i,                   \* index of the next element of the running for loop
    call,                     \* arguments of a unit-level call (pure functions)
    ret,                      \* its result; in SpecTwice, what the first call returned
    frame                     \* locals of a unit-level call that runs step by step

vars == <<pc, detections, image_shape, reference_line, icon_search_lines,
          usage_matches, min_distances_usage, matched_data,
          icons_matched_to_usage, name_matches, min_distances_name,
          usage_to_name_map, min_usage_name_dist, unmatched_app_names_keys,
          unmatched_app_usages_keys, unmatched_app_icons_keys, debug_info,
          loop_i, call, ret, frame>>

(***************************************************************************)
(* Small arithmetic helpers                                                *)
(***************************************************************************)
\* Python's None where a detection (a record) may stand
None == [label |-> "None"]

\* Python's None where a tuple (a key, a line, a chain of points) may stand
Nil == <<>>

Abs(n) == IF n < 0 THEN -n ELSE n

Min2(a, b) == IF a < b THEN a ELSE b

Max2(a, b) == IF a > b THEN a ELSE b

SetMin(S) == CHOOSE m \in S : \A n \in S : m <= n

SetMax(S) == CHOOSE m \in S : \A n \in S : m >= n

Range(s) == {s[i] : i \in DOMAIN s}

RECURSIVE GcdNat(_, _)
GcdNat(a, b) == IF b = 0 THEN a ELSE GcdNat(b, a % b)

Gcd(a, b) == GcdNat(Abs(a), Abs(b))

RECURSIVE SumSeq(_)
SumSeq(s) == IF s = <<>> THEN 0 ELSE Head(s) + SumSeq(Tail(s))

\* floor of the square root of n >= 0, by bisection on [lo, hi]
RECURSIVE ISqrtIn(_, _, _)
ISqrtIn(n, lo, hi) ==
    IF lo >= hi THEN lo
    ELSE LET mid == (lo + hi + 1) \div 2
         IN IF mid * mid <= n THEN ISqrtIn(n, mid, hi) ELSE ISqrtIn(n, lo, mid - 1)

ISqrt(n) == ISqrtIn(n, 0, Min2(n, 46340))

\* floor(num * 10^digits / den) for 0 <= num, 0 < den, by long division
RECURSIVE LongDiv(_, _, _, _)
LongDiv(q, r, den, digits) ==
    IF digits = 0 THEN q
    ELSE LongDiv(q * 10 + ((r * 10) \div den), (r * 10) % den, den, digits - 1)

ScaledQuotient(num, den, digits) == LongDiv(num \div den, num % den, den, digits)

\* a fraction <<n, d>> in lowest terms with d > 0
Frac(n, d) ==
    LET g == Gcd(n, d)
        s == IF d < 0 THEN -1 ELSE 1
    IN <<s * (n \div g), s * (d \div g)>>

FracLess(a, b) == a[1] * b[2] < b[1] * a[2]

\* ClipInt without np.clip: int() alone, which rounds towards zero
ClipIntUnclipped(f, lo, hi) ==
    IF f[1] < 0 THEN -((-f[1]) \div f[2]) ELSE f[1] \div f[2]

\* int(v) of a non-negative fraction clipped into [lo, hi]: np.clip then int()
ClipInt(f, lo, hi) ==
    IF f[1] < lo * f[2] THEN lo
    ELSE IF f[1] > hi * f[2] THEN hi
    ELSE f[1] \div f[2]

(***************************************************************************)
(* Detections                                                              *)
(***************************************************************************)
Det(label, x, y, w, h) == [label |-> label, x |-> x, y |-> y, w |-> w, h |-> h]

\* the (x, y, w, h) tuple the code uses as dictionary key
Key(d) == <<d.x, d.y, d.w, d.h>>

\* get_centroid, in half-pixel units: 2 * (x + w / 2.0, y + h / 2.0)
get_centroid(d) == <<2 * d.x + d.w, 2 * d.y + d.h>>

\* icon centre (x + w // 2, y + h // 2), in pixels
IconCenter(d) == <<d.x + (d.w \div 2), d.y + (d.h \div 2)>>

Double(p) == <<2 * p[1], 2 * p[2]>>

RECURSIVE SelectLabel(_, _)
SelectLabel(dets, label) ==
    IF dets = <<>> THEN <<>>
    ELSE IF Head(dets).label = label
         THEN <<Head(dets)>> \o SelectLabel(Tail(dets), label)
         ELSE SelectLabel(Tail(dets), label)

\* next((d for d in dets if key(d) == k), None)
FirstWithKey(dets, k) ==
    LET hits == {i \in DOMAIN dets : Key(dets[i]) = k}
    IN IF hits = {} THEN None ELSE dets[SetMin(hits)]

\* [d for d in dets if key(d) in keys]
RECURSIVE WithKeyIn(_, _)
WithKeyIn(dets, keys) ==
    IF dets = <<>> THEN <<>>
    ELSE IF Key(Head(dets)) \in keys
         THEN <<Head(dets)>> \o WithKeyIn(Tail(dets), keys)
         ELSE WithKeyIn(Tail(dets), keys)

(***************************************************************************)
(* Python dicts: sequences of <<key, value>> in insertion order            *)
(***************************************************************************)
DictHas(d, k) == \E i \in DOMAIN d : d[i][1] = k

DictGet(d, k) == d[CHOOSE i \in DOMAIN d : d[i][1] = k][2]

\* d[k] = v : an existing key keeps its position
DictSet(d, k, v) ==
    IF DictHas(d, k)
    THEN [i \in DOMAIN d |-> IF d[i][1] = k THEN <<k, v>> ELSE d[i]]
    ELSE Append(d, <<k, v>>)

\* for k in ks: d.pop(k, None)
RECURSIVE DictPopAll(_, _)
DictPopAll(d, ks) ==
    IF d = <<>> THEN <<>>
    ELSE IF Head(d)[1] \in ks
         THEN DictPopAll(Tail(d), ks)
         ELSE <<Head(d)>> \o DictPopAll(Tail(d), ks)

\* [k for k, v in d.items() if v == val]
KeysWithValue(d, val) == {d[i][1] : i \in {j \in DOMAIN d : d[j][2] = val}}

(***************************************************************************)
(* Program constants                                                       *)
(***************************************************************************)
MAX_ROW_GAP == 50

ref_line_min_icons == 3

ref_line_max_gap == 60

\* floor(10^8 * cos(25 deg)^2): the bound radians(ref_line_max_angle) on the
\* turning angle, as a bound on the squared cosine
COS_SQ_MAX_ANGLE_E8 == 82139380

search_line_tolerance == 5

USAGE_SEARCH_DISTANCE_THRESHOLD == 200

NAME_SEARCH_DISTANCE_THRESHOLD == 120

\* float('inf'): larger than every coordinate of the model
Inf == 1000000

(***************************************************************************)
(* detect_grid and find_reference_line (layout_analysis.py)                *)
(***************************************************************************)
Sub(p, q) == <<p[1] - q[1], p[2] - q[2]>>

Dot(u, v) == u[1] * v[1] + u[2] * v[2]

Cross(u, v) == u[1] * v[2] - u[2] * v[1]

NormSq(u) == Dot(u, u)

\* np.argsort(points[:, axis]) applied to the points: insertion sort, which is
\* what numpy's default sort does below 17 elements, so equal keys keep their
\* input order.  axis is 1 for x and 2 for y.
RECURSIVE InsertByAxis(_, _, _)
InsertByAxis(sorted, p, axis) ==
    IF sorted = <<>> THEN <<p>>
    ELSE IF p[axis] < Head(sorted)[axis]
         THEN <<p>> \o sorted
         ELSE <<Head(sorted)>> \o InsertByAxis(Tail(sorted), p, axis)

RECURSIVE SortByAxis(_, _)
SortByAxis(points, axis) ==
    IF points = <<>> THEN <<>>
    ELSE InsertByAxis(SortByAxis(SubSeq(points, 1, Len(points) - 1), axis),
                      points[Len(points)], axis)

\* detect_grid with a row break at a gap of MAX_ROW_GAP already
detect_grid_break_at_gap(icon_centers) ==
    IF Len(icon_centers) < 2 THEN <<0, 0>>
    ELSE LET y_sorted == SortByAxis(icon_centers, 2)
             n == Len(y_sorted)
             row_breaks == {i \in 2..n : y_sorted[i][2] - y_sorted[i - 1][2] >= MAX_ROW_GAP}
             RowEnd(s) == SetMin({b \in row_breaks \cup {n + 1} : b > s})
             num_rows == Cardinality(row_breaks) + 1
             num_cols == SetMax({RowEnd(s) - s : s \in {1} \cup row_breaks})
         IN <<num_rows, num_cols>>

detect_grid(icon_centers) ==
    IF Len(icon_centers) < 2 THEN <<0, 0>>
    ELSE LET y_sorted == SortByAxis(icon_centers, 2)
             n == Len(y_sorted)
             row_breaks == {i \in 2..n : y_sorted[i][2] - y_sorted[i - 1][2] > MAX_ROW_GAP}
             RowEnd(s) == SetMin({b \in row_breaks \cup {n + 1} : b > s})
             num_rows == Cardinality(row_breaks) + 1
             num_cols == SetMax({RowEnd(s) - s : s \in {1} \cup row_breaks})
         IN <<num_rows, num_cols>>

\* np.mean of the gaps between consecutive sorted coordinates, as the fraction
\* <<sum of gaps, number of gaps>>; float('inf') is <<1, 0>>
compute_avg_spacing(points_list, axis) ==
    IF Len(points_list) < 2 THEN <<1, 0>>
    ELSE LET sorted_points == SortByAxis(points_list, axis)
             gaps == [i \in 1..(Len(sorted_points) - 1) |->
                         Abs(sorted_points[i + 1][axis] - sorted_points[i][axis])]
         IN <<SumSeq(gaps), Len(gaps)>>

\* prioritize_columns with avg_col_spacing <= avg_row_spacing
prioritize_columns_or_equal(icon_centers) ==
    LET avg_col_spacing == compute_avg_spacing(icon_centers, 1)
        avg_row_spacing == compute_avg_spacing(icon_centers, 2)
    IN IF avg_col_spacing[2] = 0 THEN avg_row_spacing[2] = 0
       ELSE IF avg_row_spacing[2] = 0 THEN TRUE
       ELSE avg_col_spacing[1] * avg_row_spacing[2] <= avg_row_spacing[1] * avg_col_spacing[2]

\* avg_col_spacing < avg_row_spacing
prioritize_columns(icon_centers) ==
    LET avg_col_spacing == compute_avg_spacing(icon_centers, 1)
        avg_row_spacing == compute_avg_spacing(icon_centers, 2)
    IN IF avg_col_spacing[2] = 0 THEN FALSE
       ELSE IF avg_row_spacing[2] = 0 THEN TRUE
       ELSE avg_col_spacing[1] * avg_row_spacing[2] < avg_row_spacing[1] * avg_col_spacing[2]

\* arccos(clip(dot of the unit vectors)) <= radians(max_angle), for non-zero
\* integer vectors: the cosine is positive and its square is at least
\* cos(25 deg)^2, compared on 8 decimals
AngleWithinMax(u, v) ==
    /\ Dot(u, v) > 0
    /\ ScaledQuotient(Dot(u, v) * Dot(u, v), NormSq(u) * NormSq(v), 8) > COS_SQ_MAX_ANGLE_E8

\* the turning angle between two chain steps in 1e-4 rad: atan(|cross| / dot)
\* by its series (chain steps turn by at most max_angle, so the ratio is < 1/2)
AngleE4(u, v) ==
    IF Dot(u, v) <= 0 THEN 15708
    ELSE LET t == ScaledQuotient(Abs(Cross(u, v)), Dot(u, v), 4)
             t2 == (t * t) \div 10000
             t3 == (t2 * t) \div 10000
             t5 == (t3 * t2) \div 10000
             t7 == (t5 * t2) \div 10000
         IN t - (t3 \div 3) + (t5 \div 5) - (t7 \div 7)

\* line_consistency_score: the returned score is 10^6 / the value given here,
\* 1 + spacing_std + angle_std + 1e-6 in units of 1e-6 (spacings are taken to
\* 0.01 px, angles to 1e-4 rad)
ConsistencyDenominator(points) ==
    LET n == Len(points)
        directions == [i \in 1..(n - 1) |-> Sub(points[i + 1], points[i])]
        spacings == [i \in 1..(n - 1) |-> ISqrt(NormSq(directions[i]) * 10000)]
        k == Len(spacings)
        spacing_std ==
            IF k > 1
            THEN ISqrt(k * SumSeq([i \in 1..k |-> spacings[i] * spacings[i]])
                       - SumSeq(spacings) * SumSeq(spacings)) \div k
            ELSE 0
        nz == {i \in 1..(n - 1) : directions[i] # <<0, 0>>}
        norm_directions == [j \in 1..Cardinality(nz) |->
                               directions[CHOOSE i \in nz : Cardinality({m \in nz : m < i}) = j - 1]]
        nd == Len(norm_directions)
        angle_variance ==
            IF nd < 2 THEN 0
            ELSE SumSeq([i \in 1..(nd - 1) |-> AngleE4(norm_directions[i + 1], norm_directions[i])])
        angle_std == IF nd > 1 THEN angle_variance \div Max2(1, nd - 1) ELSE 0
    IN 1000000 + spacing_std * 10000 + angle_std * 100 + 1

\* score = len(current_line) * line_consistency_score(current_line), as the
\* fraction <<len, denominator>> (in units of 10^6)
LineScore(current_line) == <<Len(current_line), ConsistencyDenominator(current_line)>>

\* NextChainIdx taking the last suitable index instead of the first
NextChainIdxLastSuitable(centers_sorted, current_line, used_indices, orientation) ==
    LET last_point == current_line[Len(current_line)]
        direction_vec ==
            IF Len(current_line) >= 2
            THEN Sub(last_point, current_line[Len(current_line) - 1])
            ELSE <<0, 0>>
        Forward(c) ==
            IF orientation = "vertical" THEN c[2] > last_point[2] ELSE c[1] > last_point[1]
        angle_ok(c) ==
            IF direction_vec = <<0, 0>> \/ Sub(c, last_point) = <<0, 0>> THEN TRUE
            ELSE AngleWithinMax(direction_vec, Sub(c, last_point))
        Suitable(idx) ==
            /\ idx \notin used_indices
            /\ Forward(centers_sorted[idx])
            /\ NormSq(Sub(centers_sorted[idx], last_point)) < ref_line_max_gap * ref_line_max_gap
            /\ angle_ok(centers_sorted[idx])
        found == {idx \in 1..Len(centers_sorted) : Suitable(idx)}
    IN IF found = {} THEN 0 ELSE SetMax(found)

\* NextChainIdx with the forward tests of lines 134-135 letting an equal coordinate pass
NextChainIdxNotStrictlyForward(centers_sorted, current_line, used_indices, orientation) ==
    LET last_point == current_line[Len(current_line)]
        direction_vec ==
            IF Len(current_line) >= 2
            THEN Sub(last_point, current_line[Len(current_line) - 1])
            ELSE <<0, 0>>
        Forward(c) ==
            IF orientation = "vertical" THEN c[2] >= last_point[2] ELSE c[1] >= last_point[1]
        angle_ok(c) ==
            IF direction_vec = <<0, 0>> \/ Sub(c, last_point) = <<0, 0>> THEN TRUE
            ELSE AngleWithinMax(direction_vec, Sub(c, last_point))
        Suitable(idx) ==
            /\ idx \notin used_indices
            /\ Forward(centers_sorted[idx])
            /\ NormSq(Sub(centers_sorted[idx], last_point)) < ref_line_max_gap * ref_line_max_gap
            /\ angle_ok(centers_sorted[idx])
        found == {idx \in 1..Len(centers_sorted) : Suitable(idx)}
    IN IF found = {} THEN 0 ELSE SetMin(found)

\* NextChainIdx without the angle test of lines 139-149
NextChainIdxAnyAngle(centers_sorted, current_line, used_indices, orientation) ==
    LET last_point == current_line[Len(current_line)]
        direction_vec ==
            IF Len(current_line) >= 2
            THEN Sub(last_point, current_line[Len(current_line) - 1])
            ELSE <<0, 0>>
        Forward(c) ==
            IF orientation = "vertical" THEN c[2] > last_point[2] ELSE c[1] > last_point[1]
        angle_ok(c) ==
            TRUE
        Suitable(idx) ==
            /\ idx \notin used_indices
            /\ Forward(centers_sorted[idx])
            /\ NormSq(Sub(centers_sorted[idx], last_point)) < ref_line_max_gap * ref_line_max_gap
            /\ angle_ok(centers_sorted[idx])
        found == {idx \in 1..Len(centers_sorted) : Suitable(idx)}
    IN IF found = {} THEN 0 ELSE SetMin(found)

\* the inner for loop of try_orientation: the first index (in sorted order) of
\* an unused point that is strictly forward, closer than max_gap and within
\* the turning angle; 0 when there is none
NextChainIdx(centers_sorted, current_line, used_indices, orientation) ==
    LET last_point == current_line[Len(current_line)]
        direction_vec ==
            IF Len(current_line) >= 2
            THEN Sub(last_point, current_line[Len(current_line) - 1])
            ELSE <<0, 0>>
        Forward(c) ==
            IF orientation = "vertical" THEN c[2] > last_point[2] ELSE c[1] > last_point[1]
        angle_ok(c) ==
            IF direction_vec = <<0, 0>> \/ Sub(c, last_point) = <<0, 0>> THEN TRUE
            ELSE AngleWithinMax(direction_vec, Sub(c, last_point))
        Suitable(idx) ==
            /\ idx \notin used_indices
            /\ Forward(centers_sorted[idx])
            /\ NormSq(Sub(centers_sorted[idx], last_point)) < ref_line_max_gap * ref_line_max_gap
            /\ angle_ok(centers_sorted[idx])
        found == {idx \in 1..Len(centers_sorted) : Suitable(idx)}
    IN IF found = {} THEN 0 ELSE SetMin(found)

\* the while True loop of try_orientation
RECURSIVE ExtendChain(_, _, _, _)
ExtendChain(centers_sorted, current_line, used_indices, orientation) ==
    LET best_next_idx == NextChainIdx(centers_sorted, current_line, used_indices, orientation)
    IN IF best_next_idx = 0 THEN current_line
       ELSE ExtendChain(centers_sorted, Append(current_line, centers_sorted[best_next_idx]),
                        used_indices \cup {best_next_idx}, orientation)

ChainFrom(centers_sorted, start_idx, orientation) ==
    ExtendChain(centers_sorted, <<centers_sorted[start_idx]>>, {start_idx}, orientation)

\* line 165: if score > best_score, for a scored line
HigherScore(best, current_line, score) ==
    IF best[1] = Nil \/ FracLess(best[2], score) THEN <<current_line, score>> ELSE best

\* lines 163-167: a finished line of min_icons points or more is scored
BetterLine(best, current_line, min_icons) ==
    IF Len(current_line) >= min_icons
    THEN HigherScore(best, current_line, LineScore(current_line))
    ELSE best

\* the for start_idx loop: best[1] is best_line_points (Nil at first),
\* best[2] the best score
RECURSIVE BestFrom(_, _, _, _, _)
BestFrom(centers_sorted, start_idx, orientation, min_icons, best) ==
    IF start_idx > Len(centers_sorted) THEN best[1]
    ELSE BestFrom(centers_sorted, start_idx + 1, orientation, min_icons,
                  BetterLine(best, ChainFrom(centers_sorted, start_idx, orientation),
                             min_icons))

try_orientation(centers_list, orientation, min_icons) ==
    IF Len(centers_list) < min_icons THEN Nil
    ELSE BestFrom(SortByAxis(centers_list, IF orientation = "vertical" THEN 2 ELSE 1),
                  1, orientation, min_icons, <<Nil, <<-1, 1>>>>)

primary_orientation(icon_centers) ==
    IF prioritize_columns(icon_centers) THEN "vertical" ELSE "horizontal"

secondary_orientation(icon_centers) ==
    IF prioritize_columns(icon_centers) THEN "horizontal" ELSE "vertical"

\* IfNone keeping the primary attempt whatever it gave
IfNonePrimaryOnly(primary, secondary) == primary

\* line 183: if best_line is None, the secondary attempt
IfNone(primary, secondary) == IF primary = Nil THEN secondary ELSE primary

\* best_line after the primary and, if that gave Nil, the secondary attempt
best_line(icon_centers, min_icons) ==
    IfNone(try_orientation(icon_centers, primary_orientation(icon_centers), min_icons),
           try_orientation(icon_centers, secondary_orientation(icon_centers), min_icons))

\* n * n * variance of a coordinate of the points: np.std(y) > np.std(x) compares these
SpreadOf(points, axis) ==
    LET n == Len(points)
        v == [i \in 1..n |-> points[i][axis]]
    IN n * SumSeq([i \in 1..n |-> v[i] * v[i]]) - SumSeq(v) * SumSeq(v)

\* is_vertical with np.std(y) >= np.std(x)
is_vertical_or_equal(points) == SpreadOf(points, 2) >= SpreadOf(points, 1)

\* line 192: is_vertical = np.std(y) > np.std(x)
is_vertical(points) == SpreadOf(points, 2) > SpreadOf(points, 1)

\* np.linalg.lstsq of v against [u, 1]: the slope m as a fraction; for a
\* constant u (singular system) the minimum-norm solution has m = mean(v) * u0 / (u0^2 + 1)
FitSlope(points, u_axis, v_axis) ==
    LET n == Len(points)
        u == [i \in 1..n |-> points[i][u_axis]]
        v == [i \in 1..n |-> points[i][v_axis]]
        suv == SumSeq([i \in 1..n |-> u[i] * v[i]])
        den == SpreadOf(points, u_axis)
    IN IF den = 0
       THEN Frac(SumSeq(v) * u[1], n * (u[1] * u[1] + 1))
       ELSE Frac(n * suv - SumSeq(u) * SumSeq(v), den)

\* m * at + c of that fit
FitValueAt(points, u_axis, v_axis, at) ==
    LET n == Len(points)
        m == FitSlope(points, u_axis, v_axis)
        su == SumSeq([i \in 1..n |-> points[i][u_axis]])
        sv == SumSeq([i \in 1..n |-> points[i][v_axis]])
    IN IF SpreadOf(points, u_axis) = 0
       THEN Frac(sv * (at * points[1][u_axis] + 1),
                 n * (points[1][u_axis] * points[1][u_axis] + 1))
       ELSE Frac(sv * m[2] + m[1] * (n * at - su), n * m[2])

\* the direction of the fitted line as an integer vector: x = m * y + c for a
\* vertical chain, y = m * x + c for a horizontal one (m = FitSlope)
FittedDirection(points) ==
    IF is_vertical(points)
    THEN <<FitSlope(points, 2, 1)[1], FitSlope(points, 2, 1)[2]>>
    ELSE <<FitSlope(points, 1, 2)[2], FitSlope(points, 1, 2)[1]>>

\* lines 191-203: the fit through best_line and the clipped end points
FitLine(line, img_h, img_w) ==
    IF line = Nil THEN Nil
    ELSE IF is_vertical(line)
         THEN <<"vertical",
                <<ClipInt(FitValueAt(line, 2, 1, 0), 0, img_w), 0>>,
                <<ClipInt(FitValueAt(line, 2, 1, img_h), 0, img_w), img_h>>>>
         ELSE <<"horizontal",
                <<0, ClipInt(FitValueAt(line, 1, 2, 0), 0, img_h)>>,
                <<img_w, ClipInt(FitValueAt(line, 1, 2, img_w), 0, img_h)>>>>

find_reference_line(icon_centers, shape, min_icons) ==
    IF Len(icon_centers) = 0 \/ Len(icon_centers) < min_icons THEN Nil
    ELSE IF 0 \in Range(detect_grid(icon_centers)) THEN Nil
    ELSE FitLine(best_line(icon_centers, min_icons), shape[1], shape[2])

\* lines 181-183: the orientations handed to try_orientation, in the order of
\* the calls; none when the function returns before
OrientationsTried(icon_centers, min_icons) ==
    IF Len(icon_centers) = 0 \/ Len(icon_centers) < min_icons THEN <<>>
    ELSE IF 0 \in Range(detect_grid(icon_centers)) THEN <<>>
    ELSE IF try_orientation(icon_centers, primary_orientation(icon_centers), min_icons) = Nil
         THEN <<primary_orientation(icon_centers), secondary_orientation(icon_centers)>>
         ELSE <<primary_orientation(icon_centers)>>

(***************************************************************************)
(* create_search_line and distance_to_segment (layout_analysis.py)         *)
(***************************************************************************)
BBox(d) == [x |-> d.x, y |-> d.y, w |-> d.w, h |-> d.h]

\* one turn of the for axis loop of the slab test; st = <<t_near, t_far, broke>>
SlabAxis(st, start_coord, direction_coord, b_min, b_max) ==
    IF direction_coord = 0
    THEN IF start_coord < b_min \/ start_coord > b_max
         THEN <<Inf, st[2], TRUE>>
         ELSE st
    ELSE LET t1 == Min2((b_min - start_coord) \div direction_coord,
                        (b_max - start_coord) \div direction_coord)
             t2 == Max2((b_min - start_coord) \div direction_coord,
                        (b_max - start_coord) \div direction_coord)
             t_near == Max2(st[1], t1)
             t_far == Min2(st[2], t2)
         IN IF t_near > t_far \/ t_far < 0
            THEN <<Inf, t_far, TRUE>>
            ELSE <<t_near, t_far, FALSE>>

\* t_near of the ray from center along search against the padded box
SlabNear(center, search, box, tolerance) ==
    LET x1 == box.x - tolerance
        y1 == box.y - tolerance
        x2 == box.x + box.w + tolerance
        y2 == box.y + box.h + tolerance
        s1 == SlabAxis(<<-Inf, Inf, FALSE>>, center[1], search[1], x1, x2)
        s2 == IF s1[3] THEN s1 ELSE SlabAxis(s1, center[2], search[2], y1, y2)
    IN s2[1]

\* the bbox whose centre is the start of the ray (None when there is none)
CurrentIconBBox(center, all_icon_bboxes) ==
    LET own == {i \in DOMAIN all_icon_bboxes :
                   /\ Abs(center[1] - (all_icon_bboxes[i].x + (all_icon_bboxes[i].w \div 2))) < 1
                   /\ Abs(center[2] - (all_icon_bboxes[i].y + (all_icon_bboxes[i].h \div 2))) < 1}
    IN IF own = {} THEN None ELSE all_icon_bboxes[SetMin(own)]

\* t_max: the parameter at which the ray leaves the image
RayTMax(center, search, image_width, image_height) ==
    LET tx == IF search[1] > 0 THEN (image_width - center[1]) \div search[1] ELSE Inf
        ty == IF search[2] > 0 THEN (image_height - center[2]) \div search[2] ELSE Inf
        t == Min2(tx, ty)
    IN IF t = Inf THEN Max2(image_width, image_height) ELSE t

\* MinIntersectT without the test t_near >= 0 of line 300
RECURSIVE MinIntersectTAnySign(_, _, _, _, _, _, _)
MinIntersectTAnySign(center, search, boxes, current, tolerance, i, min_intersect_t) ==
    IF i > Len(boxes) THEN min_intersect_t
    ELSE IF current # None /\ boxes[i] = current
         THEN MinIntersectTAnySign(center, search, boxes, current, tolerance, i + 1,
                                   min_intersect_t)
         ELSE LET t_near == SlabNear(center, search, boxes[i], tolerance)
              IN MinIntersectTAnySign(center, search, boxes, current, tolerance, i + 1,
                                      IF t_near < min_intersect_t
                                      THEN t_near ELSE min_intersect_t)

\* the for other_bbox_dict loop: min_intersect_t after the boxes from index i on
RECURSIVE MinIntersectT(_, _, _, _, _, _, _)
MinIntersectT(center, search, boxes, current, tolerance, i, min_intersect_t) ==
    IF i > Len(boxes) THEN min_intersect_t
    ELSE IF current # None /\ boxes[i] = current
         THEN MinIntersectT(center, search, boxes, current, tolerance, i + 1, min_intersect_t)
         ELSE LET t_near == SlabNear(center, search, boxes[i], tolerance)
              IN MinIntersectT(center, search, boxes, current, tolerance, i + 1,
                               IF t_near < min_intersect_t /\ t_near >= 0
                               THEN t_near ELSE min_intersect_t)

Clip(v, lo, hi) == IF v < lo THEN lo ELSE IF v > hi THEN hi ELSE v

\* ClipEndPoint without the two np.clip calls
ClipEndPointUnclipped(p, image_width, image_height) == p

\* the end point before int(): start + search * final_t, clipped into the image
ClipEndPoint(p, image_width, image_height) ==
    <<Clip(p[1], 0, image_width), Clip(p[2], 0, image_height)>>

create_search_line(center, ref_line, all_icon_bboxes, image_width, image_height, tolerance) ==
    IF ref_line = Nil THEN Nil
    ELSE LET ref_orientation == ref_line[1]
             search == IF ref_orientation = "vertical" THEN <<1, 0>> ELSE <<0, 1>>
             t_max == RayTMax(center, search, image_width, image_height)
             current == CurrentIconBBox(center, all_icon_bboxes)
             final_t == MinIntersectT(center, search, all_icon_bboxes, current,
                                      tolerance, 1, t_max)
             final_end == <<center[1] + search[1] * final_t, center[2] + search[2] * final_t>>
         IN <<ref_orientation, center, ClipEndPoint(final_end, image_width, image_height)>>

\* np.clip(t, 0, 1) of a fraction
ClipUnit(t) == IF t[1] < 0 THEN <<0, 1>> ELSE IF t[1] > t[2] THEN <<1, 1>> ELSE t

\* one coordinate of point - (a + t_clipped * ab)
OffsetCoord(ap_c, ab_c, t_clipped) == Frac(ap_c * t_clipped[2] - t_clipped[1] * ab_c, t_clipped[2])

\* np.linalg.norm squared, of a vector of two fractions
NormSqFrac(vx, vy) ==
    Frac(vx[1] * vx[1] * vy[2] * vy[2] + vy[1] * vy[1] * vx[2] * vx[2],
         vx[2] * vx[2] * vy[2] * vy[2])

\* lines 333-335: the distance from p to a + t_clipped * ab, squared
DistanceAt(ap, ab, t_clipped) ==
    NormSqFrac(OffsetCoord(ap[1], ab[1], t_clipped), OffsetCoord(ap[2], ab[2], t_clipped))

\* lines 321-330 on ap = p - a and ab = b - a
DistanceFrom(ap, ab) ==
    IF Dot(ab, ab) = 0 THEN <<NormSq(ap), 1>>
    ELSE DistanceAt(ap, ab, ClipUnit(Frac(Dot(ap, ab), Dot(ab, ab))))

\* distance_to_segment: the SQUARE of the distance the code returns, as a
\* fraction in lowest terms (the code's result is its square root)
distance_to_segment(point, a, b) == DistanceFrom(Sub(point, a), Sub(b, a))

(***************************************************************************)
(* GridProcessor.find_reference_line (detection/grid_processor.py), the    *)
(* older reference-line search used by detection/matcher.py and            *)
(* pipeline/processor.py                                                   *)
(***************************************************************************)
MAX_COLUMN_WIDTH == 50

MAX_GAP == 60

PrimaryCoord(p, orientation) == IF orientation = "vertical" THEN p[2] ELSE p[1]

\* coord_idx: x for a vertical line, y for a horizontal one
CrossCoord(p, orientation) == IF orientation = "vertical" THEN p[1] ELSE p[2]

GridProcessor_detect_grid(icon_centers) ==
    IF Len(icon_centers) < 2 THEN <<0, 0>>
    ELSE LET y_sorted == SortByAxis(icon_centers, 2)
             n == Len(y_sorted)
             row_breaks == {i \in 2..n : y_sorted[i][2] - y_sorted[i - 1][2] > MAX_COLUMN_WIDTH}
             RowEnd(s) == SetMin({b \in row_breaks \cup {n + 1} : b > s})
             num_rows == Cardinality(row_breaks) + 1
             num_cols == SetMax({RowEnd(s) - s : s \in {1} \cup row_breaks})
         IN <<num_rows, num_cols>>

\* np.delete(centers, start_idx, axis=0)
DeleteAt(s, i) == SubSeq(s, 1, i - 1) \o SubSeq(s, i + 1, Len(s))

\* remaining_centers[mask]: every row equal to p is dropped
WithoutPoint(s, p) == SelectSeq(s, LAMBDA c : c # p)

\* lines 93-105: the index in remaining_centers of the first candidate that is
\* closer than MAX_GAP across the line and strictly forward; 0 when the
\* for loop ends without a break
GridFirstLink(remaining_centers, last, orientation) ==
    LET found == {i \in DOMAIN remaining_centers :
                     /\ Abs(CrossCoord(remaining_centers[i], orientation)
                            - CrossCoord(last, orientation)) < MAX_GAP
                     /\ PrimaryCoord(remaining_centers[i], orientation)
                            > PrimaryCoord(last, orientation)}
    IN IF found = {} THEN 0 ELSE SetMin(found)

\* the cosine of the angle between two non-zero vectors, squared, with the
\* sign of the cosine, on 8 decimals: the larger, the smaller the angle
SignedCosSqE8(u, v) ==
    IF Dot(u, v) >= 0
    THEN ScaledQuotient(Dot(u, v) * Dot(u, v), NormSq(u) * NormSq(v), 8)
    ELSE -ScaledQuotient(Dot(u, v) * Dot(u, v), NormSq(u) * NormSq(v), 8)

\* lines 118-124: the remaining centers strictly forward of last
GridCandidates(remaining_centers, last, orientation) ==
    SelectSeq(remaining_centers,
              LAMBDA c : PrimaryCoord(c, orientation) > PrimaryCoord(last, orientation))

\* np.argmin(angles): the first index of a smallest angle, the angles being
\* given by their signed squared cosines
GridArgMin(angles) ==
    SetMin({i \in DOMAIN angles : \A j \in DOMAIN angles : angles[j] <= angles[i]})

\* line 135: angles[min_idx] < np.radians(MAX_ANGLE); the point is appended,
\* or Nil for the break
GridWithinAngle(direction, last, best_next) ==
    IF AngleWithinMax(direction, Sub(best_next, last)) THEN best_next ELSE Nil

\* the candidate of smallest angle to the direction of the last two points
GridBestNext(candidates, last, direction) ==
    CHOOSE best_next \in
        {GridWithinAngle(direction, last, candidates[GridArgMin(angles)]) :
            angles \in {[i \in DOMAIN candidates |->
                           SignedCosSqE8(direction, Sub(candidates[i], last))]}} : TRUE

\* lines 110-141, one turn of the while True loop: the point appended, or Nil
\* when the loop is left
GridNextPoint(current_line, remaining_centers, orientation) ==
    IF GridCandidates(remaining_centers, current_line[Len(current_line)], orientation) = <<>>
    THEN Nil
    ELSE GridBestNext(GridCandidates(remaining_centers, current_line[Len(current_line)],
                                     orientation),
                      current_line[Len(current_line)],
                      Sub(current_line[Len(current_line)], current_line[Len(current_line) - 1]))

RECURSIVE GridExtendChain(_, _, _)
GridExtendChain(current_line, remaining_centers, orientation) ==
    LET best_next == GridNextPoint(current_line, remaining_centers, orientation)
    IN IF best_next = Nil THEN current_line
       ELSE GridExtendChain(Append(current_line, best_next),
                            WithoutPoint(remaining_centers, best_next), orientation)

\* lines 90-108: the start point and its first link, with what remains; Nil
\* when there is no first link (continue)
GridStart(centers, start_idx, orientation) ==
    LET remaining_centers == DeleteAt(centers, start_idx)
        first == GridFirstLink(remaining_centers, centers[start_idx], orientation)
    IN IF first = 0 THEN Nil
       ELSE <<<<centers[start_idx], remaining_centers[first]>>,
              WithoutPoint(remaining_centers, remaining_centers[first])>>

\* the line grown from one start index; Nil when it has no first link
GridChainFrom(centers, start_idx, orientation) ==
    LET started == GridStart(centers, start_idx, orientation)
    IN IF started = Nil THEN Nil
       ELSE GridExtendChain(started[1], started[2], orientation)

\* lines 49-62 and 144: as LineScore, without the 1e-6 in the denominator
GridLineScore(current_line) ==
    <<Len(current_line), ConsistencyDenominator(current_line) - 1>>

\* lines 145-147: if line_score > best_score
GridHigherScore(best, current_line, score) ==
    IF FracLess(best[2], score) THEN <<current_line, score>> ELSE best

\* lines 143-147
GridBetterLine(best, current_line, min_icons) ==
    IF current_line # Nil /\ Len(current_line) >= min_icons
    THEN GridHigherScore(best, current_line, GridLineScore(current_line))
    ELSE best

\* for start_idx in range(len(centers) - min_icons + 1)
RECURSIVE GridBestFrom(_, _, _, _, _)
GridBestFrom(centers, start_idx, orientation, min_icons, best) ==
    IF start_idx > Len(centers) - min_icons + 1 THEN best[1]
    ELSE GridBestFrom(centers, start_idx + 1, orientation, min_icons,
                      GridBetterLine(best, GridChainFrom(centers, start_idx, orientation),
                                     min_icons))

\* sorted(centers, key=...) is stable, as SortByAxis is; best_score starts at 0
GridProcessor_try_orientation(centers, orientation, min_icons) ==
    GridBestFrom(SortByAxis(centers, IF orientation = "vertical" THEN 2 ELSE 1),
                 1, orientation, min_icons, <<Nil, <<0, 1>>>>)

\* line 73 and lines 152-155: a or b
GridProcessor_best_line(icon_centers, min_icons) ==
    IfNone(GridProcessor_try_orientation(icon_centers, primary_orientation(icon_centers),
                                         min_icons),
           GridProcessor_try_orientation(icon_centers, secondary_orientation(icon_centers),
                                         min_icons))

\* int() of a fraction: towards zero
TruncInt(f) == IF f[1] < 0 THEN -((-f[1]) \div f[2]) ELSE f[1] \div f[2]

\* lines 160-186: the fit, int() of the two fitted values, then np.clip of
\* every coordinate
GridFitLine(line, img_h, img_w) ==
    IF line = Nil THEN Nil
    ELSE IF is_vertical(line)
         THEN <<"vertical",
                <<Clip(TruncInt(FitValueAt(line, 2, 1, 0)), 0, img_w), Clip(0, 0, img_h)>>,
                <<Clip(TruncInt(FitValueAt(line, 2, 1, img_h)), 0, img_w),
                  Clip(img_h, 0, img_h)>>>>
         ELSE <<"horizontal",
                <<Clip(0, 0, img_w), Clip(TruncInt(FitValueAt(line, 1, 2, 0)), 0, img_h)>>,
                <<Clip(img_w, 0, img_w),
                  Clip(TruncInt(FitValueAt(line, 1, 2, img_w)), 0, img_h)>>>>

GridProcessor_find_reference_line(icon_centers, shape, min_icons) ==
    IF Len(icon_centers) < min_icons THEN Nil
    ELSE IF 0 \in Range(GridProcessor_detect_grid(icon_centers)) THEN Nil
    ELSE GridFitLine(GridProcessor_best_line(icon_centers, min_icons), shape[1], shape[2])

\* lines 152-155: a or b calls b only when a is None
GridOrientationsTried(icon_centers, min_icons) ==
    IF Len(icon_centers) < min_icons THEN <<>>
    ELSE IF 0 \in Range(GridProcessor_detect_grid(icon_centers)) THEN <<>>
    ELSE IF GridProcessor_try_orientation(icon_centers, primary_orientation(icon_centers),
                                          min_icons) = Nil
         THEN <<primary_orientation(icon_centers), secondary_orientation(icon_centers)>>
         ELSE <<primary_orientation(icon_centers)>>

(***************************************************************************)
(* match_app_name_and_usage (layout_analysis.py), one action per step      *)
(***************************************************************************)
app_names == SelectLabel(detections, "app_name")

app_usages == SelectLabel(detections, "app_usage")

app_icons == SelectLabel(detections, "app_icon")

icon_centers == [i \in DOMAIN app_icons |-> IconCenter(app_icons[i])]

KeysOf(dets) == {Key(dets[i]) : i \in DOMAIN dets}

\* a distance threshold in pixels as a squared distance in half-pixel units
ThresholdSq(pixels) == <<(2 * pixels) * (2 * pixels), 1>>

\* MatchReferenceLine with a minimum of two icons
MatchReferenceLineMinTwo ==
    IF Len(app_icons) >= 2
    THEN find_reference_line(icon_centers, image_shape, 2)
    ELSE Nil

\* line 375-381: the reference line is looked for with at least min icons only
MatchReferenceLine ==
    IF Len(app_icons) >= ref_line_min_icons
    THEN find_reference_line(icon_centers, image_shape, ref_line_min_icons)
    ELSE Nil

FindReferenceLine ==
    /\ pc = "start"
    /\ reference_line' = MatchReferenceLine
    /\ pc' = IF reference_line' # Nil THEN "search_lines" ELSE "fallback_gate"
    /\ UNCHANGED <<detections, image_shape, icon_search_lines, usage_matches,
                   min_distances_usage, matched_data, icons_matched_to_usage,
                   name_matches, min_distances_name, usage_to_name_map,
                   min_usage_name_dist, unmatched_app_names_keys,
                   unmatched_app_usages_keys, unmatched_app_icons_keys,
                   debug_info, loop_i, call, ret, frame>>

\* lines 392-402: one search line per icon, in input order
SearchLinesOf(icons, ref_line, shape) ==
    LET all_icon_bboxes_for_search == [i \in DOMAIN icons |-> BBox(icons[i])]
    IN [i \in DOMAIN icons |->
           [icon |-> icons[i],
            search_line |-> create_search_line(IconCenter(icons[i]), ref_line,
                                               all_icon_bboxes_for_search,
                                               shape[2], shape[1], search_line_tolerance)]]

BuildSearchLines ==
    /\ pc = "search_lines"
    /\ icon_search_lines' = SearchLinesOf(app_icons, reference_line, image_shape)
    /\ pc' = "phase1"
    /\ loop_i' = 1
    /\ UNCHANGED <<detections, image_shape, reference_line, usage_matches,
                   min_distances_usage, matched_data, icons_matched_to_usage,
                   name_matches, min_distances_name, usage_to_name_map,
                   min_usage_name_dist, unmatched_app_names_keys,
                   unmatched_app_usages_keys, unmatched_app_icons_keys,
                   debug_info, call, ret, frame>>

\* CloserSearchLine with distance <= min_dist
CloserSearchLineOrEqual(acc, icon_key, eligible, distance) ==
    IF icon_key \in eligible /\ ~FracLess(acc[1], distance)
    THEN <<distance, icon_key>> ELSE acc

\* lines 414-415 and 445: if distance < min_dist, this icon is the best so far
CloserSearchLine(acc, icon_key, eligible, distance) ==
    IF icon_key \in eligible /\ FracLess(distance, acc[1])
    THEN <<distance, icon_key>> ELSE acc

\* the for item in icon_search_lines loop of both phases, from index i on;
\* acc = <<min_dist, best_icon_key>>; only icons with a key in eligible count
RECURSIVE NearestSearchLine(_, _, _, _, _)
NearestSearchLine(center, lines, eligible, i, acc) ==
    IF i > Len(lines) THEN acc
    ELSE NearestSearchLine(center, lines, eligible, i + 1,
                           CloserSearchLine(acc, Key(lines[i].icon), eligible,
                                            distance_to_segment(center,
                                                Double(lines[i].search_line[2]),
                                                Double(lines[i].search_line[3]))))

\* ClaimIcon with the release of the displaced claimants left out
ClaimIconWithoutRelease(matches, min_distances, key, best_icon_key, min_dist) ==
    LET existing_match ==
            \E i \in DOMAIN matches :
                /\ matches[i][2] = best_icon_key
                /\ DictHas(min_distances, matches[i][1])
                /\ FracLess(DictGet(min_distances, matches[i][1]), min_dist)
    IN IF existing_match THEN <<matches, min_distances>>
       ELSE <<DictSet(matches, key, best_icon_key), DictSet(min_distances, key, min_dist)>>

\* ClaimIcon with the distances of the claimants not compared: the first
\* claimant of an icon keeps it
ClaimIconFirstClaimKeeps(matches, min_distances, key, best_icon_key, min_dist) ==
    LET existing_match == \E i \in DOMAIN matches : matches[i][2] = best_icon_key
    IN IF existing_match THEN <<matches, min_distances>>
       ELSE <<DictSet(matches, key, best_icon_key), DictSet(min_distances, key, min_dist)>>

\* ClaimIcon with the earlier claimant kept when it is as near as the new one
ClaimIconEarlierKeepsOnTie(matches, min_distances, key, best_icon_key, min_dist) ==
    LET existing_match ==
            \E i \in DOMAIN matches :
                /\ matches[i][2] = best_icon_key
                /\ DictHas(min_distances, matches[i][1])
                /\ ~FracLess(min_dist, DictGet(min_distances, matches[i][1]))
        keys_to_remove == KeysWithValue(matches, best_icon_key)
    IN IF existing_match THEN <<matches, min_distances>>
       ELSE <<DictSet(DictPopAll(matches, keys_to_remove), key, best_icon_key),
              DictSet(DictPopAll(min_distances, keys_to_remove), key, min_dist)>>

\* lines 416-423 and 446-453: the claim of best_icon_key by key at min_dist;
\* returns the two dicts <<matches, min_distances>>
ClaimIcon(matches, min_distances, key, best_icon_key, min_dist) ==
    LET existing_match ==
            \E i \in DOMAIN matches :
                /\ matches[i][2] = best_icon_key
                /\ DictHas(min_distances, matches[i][1])
                /\ FracLess(DictGet(min_distances, matches[i][1]), min_dist)
        keys_to_remove == KeysWithValue(matches, best_icon_key)
    IN IF existing_match THEN <<matches, min_distances>>
       ELSE <<DictSet(DictPopAll(matches, keys_to_remove), key, best_icon_key),
              DictSet(DictPopAll(min_distances, keys_to_remove), key, min_dist)>>

\* lines 416 and 446: if best_icon_key, the claim; found = <<min_dist, best_icon_key>>
ClaimFound(matches, min_distances, key, found) ==
    IF found[2] = Nil THEN <<matches, min_distances>>
    ELSE ClaimIcon(matches, min_distances, key, found[2], found[1])

\* one turn of the for usage_det in app_usages loop of phase 1
Phase1Result(usage_det) ==
    ClaimFound(usage_matches, min_distances_usage, Key(usage_det),
               NearestSearchLine(get_centroid(usage_det), icon_search_lines,
                                 KeysOf(app_icons), 1,
                                 <<ThresholdSq(USAGE_SEARCH_DISTANCE_THRESHOLD), Nil>>))

Phase1Usage ==
    /\ pc = "phase1"
    /\ loop_i <= Len(app_usages)
    /\ \E result \in {Phase1Result(app_usages[loop_i])} :
           /\ usage_matches' = result[1]
           /\ min_distances_usage' = result[2]
    /\ loop_i' = loop_i + 1
    /\ UNCHANGED <<pc, detections, image_shape, reference_line, icon_search_lines,
                   matched_data, icons_matched_to_usage, name_matches,
                   min_distances_name, usage_to_name_map, min_usage_name_dist,
                   unmatched_app_names_keys, unmatched_app_usages_keys,
                   unmatched_app_icons_keys, debug_info, call, ret, frame>>

\* lines 426-433: the usage-icon records, in the order of usage_matches
RECURSIVE UsageIconRecords(_, _, _)
UsageIconRecords(matches, usages, icons) ==
    IF matches = <<>> THEN <<>>
    ELSE LET usage_det == FirstWithKey(usages, Head(matches)[1])
             icon_det == FirstWithKey(icons, Head(matches)[2])
             rest == UsageIconRecords(Tail(matches), usages, icons)
         IN IF usage_det # None /\ icon_det # None
            THEN <<[app_usage |-> usage_det, app_icon |-> icon_det, app_name |-> None]>> \o rest
            ELSE rest

Phase1Records ==
    /\ pc = "phase1"
    /\ loop_i > Len(app_usages)
    /\ matched_data' = matched_data \o UsageIconRecords(usage_matches, app_usages, app_icons)
    /\ unmatched_app_usages_keys' =
           unmatched_app_usages_keys \ {usage_matches[i][1] : i \in DOMAIN usage_matches}
    /\ unmatched_app_icons_keys' =
           unmatched_app_icons_keys \ {usage_matches[i][2] : i \in DOMAIN usage_matches}
    /\ icons_matched_to_usage' = {usage_matches[i][2] : i \in DOMAIN usage_matches}
    /\ pc' = "phase2"
    /\ loop_i' = 1
    /\ UNCHANGED <<detections, image_shape, reference_line, icon_search_lines,
                   usage_matches, min_distances_usage, name_matches,
                   min_distances_name, usage_to_name_map, min_usage_name_dist,
                   unmatched_app_names_keys, debug_info, call, ret, frame>>

\* Phase2Result with the threshold of the usages
Phase2ResultUsageThreshold(name_det) ==
    ClaimFound(name_matches, min_distances_name, Key(name_det),
               NearestSearchLine(get_centroid(name_det), icon_search_lines,
                                 icons_matched_to_usage, 1,
                                 <<ThresholdSq(USAGE_SEARCH_DISTANCE_THRESHOLD), Nil>>))

\* one turn of the for name_det in app_names loop of phase 2
Phase2Result(name_det) ==
    ClaimFound(name_matches, min_distances_name, Key(name_det),
               NearestSearchLine(get_centroid(name_det), icon_search_lines,
                                 icons_matched_to_usage, 1,
                                 <<ThresholdSq(NAME_SEARCH_DISTANCE_THRESHOLD), Nil>>))

Phase2Name ==
    /\ pc = "phase2"
    /\ loop_i <= Len(app_names)
    /\ \E result \in {Phase2Result(app_names[loop_i])} :
           /\ name_matches' = result[1]
           /\ min_distances_name' = result[2]
    /\ loop_i' = loop_i + 1
    /\ UNCHANGED <<pc, detections, image_shape, reference_line, icon_search_lines,
                   usage_matches, min_distances_usage, matched_data,
                   icons_matched_to_usage, usage_to_name_map, min_usage_name_dist,
                   unmatched_app_names_keys, unmatched_app_usages_keys,
                   unmatched_app_icons_keys, debug_info, call, ret, frame>>

\* lines 456-464: acc = <<matched_data, unmatched_app_names_keys>> after the
\* name matches from index i on
RECURSIVE AttachNames(_, _, _, _)
AttachNames(matches, names, i, acc) ==
    IF i > Len(matches) THEN acc
    ELSE LET name_key == matches[i][1]
             icon_key == matches[i][2]
             name_det == FirstWithKey(names, name_key)
             data == acc[1]
             open == {e \in DOMAIN data :
                         /\ data[e].app_icon # None
                         /\ Key(data[e].app_icon) = icon_key
                         /\ data[e].app_name = None}
         IN IF name_det = None \/ open = {}
            THEN AttachNames(matches, names, i + 1, acc)
            ELSE AttachNames(matches, names, i + 1,
                             <<[data EXCEPT ![SetMin(open)].app_name = name_det],
                               acc[2] \ {name_key}>>)

Phase2Attach ==
    /\ pc = "phase2"
    /\ loop_i > Len(app_names)
    /\ matched_data' =
           AttachNames(name_matches, app_names, 1, <<matched_data, unmatched_app_names_keys>>)[1]
    /\ unmatched_app_names_keys' =
           AttachNames(name_matches, app_names, 1, <<matched_data, unmatched_app_names_keys>>)[2]
    /\ pc' = "fallback_gate"
    /\ UNCHANGED <<detections, image_shape, reference_line, icon_search_lines,
                   usage_matches, min_distances_usage, icons_matched_to_usage,
                   name_matches, min_distances_name, usage_to_name_map,
                   min_usage_name_dist, unmatched_app_usages_keys,
                   unmatched_app_icons_keys, debug_info, loop_i, call, ret, frame>>

\* FallbackGate with the test "not icon_search_lines" left out
FallbackGateIgnoringSearchLines ==
    /\ pc = "fallback_gate"
    /\ pc' = IF app_names # <<>> /\ app_usages # <<>> THEN "fallback" ELSE "finish"
    /\ loop_i' = 1
    /\ UNCHANGED <<detections, image_shape, reference_line, icon_search_lines,
                   usage_matches, min_distances_usage, matched_data,
                   icons_matched_to_usage, name_matches, min_distances_name,
                   usage_to_name_map, min_usage_name_dist, unmatched_app_names_keys,
                   unmatched_app_usages_keys, unmatched_app_icons_keys,
                   debug_info, call, ret, frame>>

\* line 467: if not icon_search_lines and app_names and app_usages
FallbackGate ==
    /\ pc = "fallback_gate"
    /\ pc' = IF icon_search_lines = <<>> /\ app_names # <<>> /\ app_usages # <<>>
             THEN "fallback" ELSE "finish"
    /\ loop_i' = 1
    /\ UNCHANGED <<detections, image_shape, reference_line, icon_search_lines,
                   usage_matches, min_distances_usage, matched_data,
                   icons_matched_to_usage, name_matches, min_distances_name,
                   usage_to_name_map, min_usage_name_dist, unmatched_app_names_keys,
                   unmatched_app_usages_keys, unmatched_app_icons_keys,
                   debug_info, call, ret, frame>>

\* squared distance of two centroids (half-pixel units)
CentroidDistSq(u, n) == NormSq(Sub(get_centroid(u), get_centroid(n)))

\* NearestName with the test is_name_closer_elsewhere left out
RECURSIVE NearestNameIgnoringClaims(_, _, _, _, _, _)
NearestNameIgnoringClaims(usage_det, names, map, dists, i, acc) ==
    IF i > Len(names) THEN acc
    ELSE NearestNameIgnoringClaims(usage_det, names, map, dists, i + 1,
                                   IF CentroidDistSq(usage_det, names[i]) < acc[1]
                                   THEN <<CentroidDistSq(usage_det, names[i]), Key(names[i])>>
                                   ELSE acc)

\* lines 473-481: the for name_det loop of the fallback, from index i on;
\* acc = <<min_dist_sq, best_name_key>>, min_dist_sq = Inf standing for float('inf')
RECURSIVE NearestName(_, _, _, _, _, _)
NearestName(usage_det, names, map, dists, i, acc) ==
    IF i > Len(names) THEN acc
    ELSE LET name_key == Key(names[i])
             dist_sq == CentroidDistSq(usage_det, names[i])
             is_name_closer_elsewhere ==
                 \E j \in DOMAIN map :
                     /\ map[j][2] = name_key
                     /\ DictHas(dists, map[j][1])
                     /\ DictGet(dists, map[j][1]) < dist_sq
         IN NearestName(usage_det, names, map, dists, i + 1,
                        IF dist_sq < acc[1] /\ ~is_name_closer_elsewhere
                        THEN <<dist_sq, name_key>> ELSE acc)

\* FallbackResult with keys_to_remove holding every key of the dict
FallbackResultReleasingAll(usage_det) ==
    LET found == NearestName(usage_det, app_names, usage_to_name_map,
                             min_usage_name_dist, 1, <<Inf, Nil>>)
    IN IF found[2] = Nil THEN <<usage_to_name_map, min_usage_name_dist>>
       ELSE << <<  <<Key(usage_det), found[2]>> >>, << <<Key(usage_det), found[1]>> >> >>

\* one turn of the for usage_det loop of the fallback: the two dicts
FallbackResult(usage_det) ==
    LET found == NearestName(usage_det, app_names, usage_to_name_map,
                             min_usage_name_dist, 1, <<Inf, Nil>>)
        keys_to_remove == KeysWithValue(usage_to_name_map, found[2])
    IN IF found[2] = Nil THEN <<usage_to_name_map, min_usage_name_dist>>
       ELSE <<DictSet(DictPopAll(usage_to_name_map, keys_to_remove), Key(usage_det), found[2]),
              DictSet(DictPopAll(min_usage_name_dist, keys_to_remove), Key(usage_det), found[1])>>

FallbackUsage ==
    /\ pc = "fallback"
    /\ loop_i <= Len(app_usages)
    /\ usage_to_name_map' = FallbackResult(app_usages[loop_i])[1]
    /\ min_usage_name_dist' = FallbackResult(app_usages[loop_i])[2]
    /\ loop_i' = loop_i + 1
    /\ UNCHANGED <<pc, detections, image_shape, reference_line, icon_search_lines,
                   usage_matches, min_distances_usage, matched_data,
                   icons_matched_to_usage, name_matches, min_distances_name,
                   unmatched_app_names_keys, unmatched_app_usages_keys,
                   unmatched_app_icons_keys, debug_info, call, ret, frame>>

\* lines 488-493: the usage-name records, in the order of usage_to_name_map
RECURSIVE UsageNameRecords(_, _, _)
UsageNameRecords(map, usages, names) ==
    IF map = <<>> THEN <<>>
    ELSE LET usage_det == FirstWithKey(usages, Head(map)[1])
             name_det == FirstWithKey(names, Head(map)[2])
             rest == UsageNameRecords(Tail(map), usages, names)
         IN IF usage_det # None /\ name_det # None
            THEN <<[app_usage |-> usage_det, app_icon |-> None, app_name |-> name_det]>> \o rest
            ELSE rest

FallbackRecords ==
    /\ pc = "fallback"
    /\ loop_i > Len(app_usages)
    /\ matched_data' = matched_data \o UsageNameRecords(usage_to_name_map, app_usages, app_names)
    /\ unmatched_app_usages_keys' =
           unmatched_app_usages_keys \ {usage_to_name_map[i][1] : i \in DOMAIN usage_to_name_map}
    /\ unmatched_app_names_keys' =
           unmatched_app_names_keys \ {usage_to_name_map[i][2] : i \in DOMAIN usage_to_name_map}
    /\ pc' = "finish"
    /\ UNCHANGED <<detections, image_shape, reference_line, icon_search_lines,
                   usage_matches, min_distances_usage, icons_matched_to_usage,
                   name_matches, min_distances_name, usage_to_name_map,
                   min_usage_name_dist, unmatched_app_icons_keys, debug_info,
                   loop_i, call, ret, frame>>

\* lines 496-502: the unmatched lists, then return
Finish ==
    /\ pc = "finish"
    /\ debug_info' = [unmatched_app_names |-> WithKeyIn(app_names, unmatched_app_names_keys),
                      unmatched_app_usages |-> WithKeyIn(app_usages, unmatched_app_usages_keys),
                      unmatched_app_icons |-> WithKeyIn(app_icons, unmatched_app_icons_keys)]
    /\ pc' = "done"
    /\ UNCHANGED <<detections, image_shape, reference_line, icon_search_lines,
                   usage_matches, min_distances_usage, matched_data,
                   icons_matched_to_usage, name_matches, min_distances_name,
                   usage_to_name_map, min_usage_name_dist, unmatched_app_names_keys,
                   unmatched_app_usages_keys, unmatched_app_icons_keys,
                   loop_i, call, ret, frame>>

(***************************************************************************)
(* Inputs of the model                                                     *)
(***************************************************************************)
MaxUsages == 3

MaxNames == 2

RECURSIVE SeqsUpTo(_, _)
SeqsUpTo(S, n) ==
    IF n = 0 THEN {<<>>}
    ELSE SeqsUpTo(S, n - 1) \cup {Append(s, e) : s \in {t \in SeqsUpTo(S, n - 1) : Len(t) = n - 1}, e \in S}

Icon(x, y, w, h) == Det("app_icon", x, y, w, h)

Usage(x, y, w, h) == Det("app_usage", x, y, w, h)

Name(x, y, w, h) == Det("app_name", x, y, w, h)

\* icon layouts: none; two icons; a column with gaps of 50 (in two input
\* orders); a column with gaps of 100; a column with a tall icon beside it;
\* a row; a column with one icon detected twice
IconLayouts ==
    { <<>>,
      <<Icon(0, 0, 1, 1), Icon(0, 50, 1, 1)>>,
      <<Icon(0, 0, 1, 1), Icon(0, 50, 1, 1), Icon(0, 100, 1, 1)>>,
      <<Icon(0, 100, 1, 1), Icon(0, 0, 1, 1), Icon(0, 50, 1, 1)>>,
      <<Icon(0, 0, 1, 1), Icon(0, 100, 1, 1), Icon(0, 200, 1, 1)>>,
      <<Icon(0, 0, 1, 1), Icon(6, 0, 2, 100), Icon(0, 100, 1, 1)>>,
      <<Icon(0, 0, 1, 1), Icon(50, 0, 1, 1), Icon(100, 0, 1, 1)>>,
      <<Icon(0, 0, 1, 1), Icon(0, 50, 1, 1), Icon(0, 50, 1, 1), Icon(0, 100, 1, 1)>> }

\* usage boxes 10 x 10 with centroids (5, 45), (5, 105), (5, 120), (5, 130),
\* (5, 150) and (5, 395)
UsageBoxes ==
    { Usage(0, 40, 10, 10), Usage(0, 100, 10, 10), Usage(0, 115, 10, 10),
      Usage(0, 125, 10, 10), Usage(0, 145, 10, 10), Usage(0, 390, 10, 10) }

\* name boxes 16 x 16 with centroids (8, 98) and (8, 110)
NameBoxes == { Name(0, 90, 16, 16), Name(0, 102, 16, 16) }

ImageShapes == { <<400, 300>> }

Idle ==
    /\ call = None
    /\ ret = None
    /\ frame = None

Init ==
    /\ \E icons \in IconLayouts, usages \in SeqsUpTo(UsageBoxes, MaxUsages),
          names \in SeqsUpTo(NameBoxes, MaxNames) :
           detections = icons \o usages \o names
    /\ image_shape \in ImageShapes
    /\ pc = "start"
    /\ reference_line = Nil
    /\ icon_search_lines = <<>>
    /\ usage_matches = <<>>
    /\ min_distances_usage = <<>>
    /\ matched_data = <<>>
    /\ icons_matched_to_usage = {}
    /\ name_matches = <<>>
    /\ min_distances_name = <<>>
    /\ usage_to_name_map = <<>>
    /\ min_usage_name_dist = <<>>
    /\ unmatched_app_names_keys = KeysOf(app_names)
    /\ unmatched_app_usages_keys = KeysOf(app_usages)
    /\ unmatched_app_icons_keys = KeysOf(app_icons)
    /\ debug_info = None
    /\ loop_i = 1
    /\ Idle

Next ==
    \/ FindReferenceLine
    \/ BuildSearchLines
    \/ Phase1Usage
    \/ Phase1Records
    \/ Phase2Name
    \/ Phase2Attach
    \/ FallbackGate
    \/ FallbackUsage
    \/ FallbackRecords
    \/ Finish

Spec == Init /\ [][Next]_vars

(***************************************************************************)
(* match_app_name_and_usage on inputs that lie on its boundaries: boxes    *)
(* at equal distance from one search ray, a box at equal distance from two *)
(* rays, boxes at exactly the threshold distance                           *)
(***************************************************************************)
\* none; a column with gaps of 50, top to bottom and bottom to top
EdgeIconLayouts ==
    { <<>>,
      <<Icon(0, 0, 1, 1), Icon(0, 50, 1, 1), Icon(0, 100, 1, 1)>>,
      <<Icon(0, 100, 1, 1), Icon(0, 50, 1, 1), Icon(0, 0, 1, 1)>> }

\* usage boxes 10 x 10 with centroids (5, 120) and (5, 80), both 20 from the
\* ray y = 100; (5, 25), 25 from the rays y = 0 and y = 50; (5, 300), 200 from
\* the ray y = 100
EdgeUsageBoxes ==
    { Usage(0, 115, 10, 10), Usage(0, 75, 10, 10), Usage(0, 20, 10, 10),
      Usage(0, 295, 10, 10) }

\* name boxes 16 x 16 with centroids (8, 98) and (8, 102), both 2 from the ray
\* y = 100; (8, 220), 120 from the ray y = 100; (8, 8), 8 from the ray y = 0
EdgeNameBoxes ==
    { Name(0, 90, 16, 16), Name(0, 94, 16, 16), Name(0, 212, 16, 16),
      Name(0, 0, 16, 16) }

InitEdge ==
    /\ \E icons \in EdgeIconLayouts, usages \in SeqsUpTo(EdgeUsageBoxes, MaxUsages),
          names \in SeqsUpTo(EdgeNameBoxes, MaxNames) :
           detections = icons \o usages \o names
    /\ image_shape \in ImageShapes
    /\ pc = "start"
    /\ reference_line = Nil
    /\ icon_search_lines = <<>>
    /\ usage_matches = <<>>
    /\ min_distances_usage = <<>>
    /\ matched_data = <<>>
    /\ icons_matched_to_usage = {}
    /\ name_matches = <<>>
    /\ min_distances_name = <<>>
    /\ usage_to_name_map = <<>>
    /\ min_usage_name_dist = <<>>
    /\ unmatched_app_names_keys = KeysOf(app_names)
    /\ unmatched_app_usages_keys = KeysOf(app_usages)
    /\ unmatched_app_icons_keys = KeysOf(app_icons)
    /\ debug_info = None
    /\ loop_i = 1
    /\ Idle

SpecEdge == InitEdge /\ [][Next]_vars

(***************************************************************************)
(* Two calls of match_app_name_and_usage on the same arguments, one after  *)
(* the other; ret keeps what the first call returned                       *)
(***************************************************************************)
\* matched_data and debug_info (reference line, search lines, unmatched lists)
ReturnValue ==
    [matched_data |-> matched_data,
     reference_line |-> reference_line,
     icon_search_lines |-> icon_search_lines,
     debug_info |-> debug_info]

\* CallAgain with matched_data living on between the calls
CallAgainKeepingMatchedData ==
    /\ pc = "done"
    /\ ret = None
    /\ ret' = ReturnValue
    /\ pc' = "start"
    /\ debug_info' = None
    /\ unmatched_app_names_keys' = KeysOf(app_names)
    /\ unmatched_app_usages_keys' = KeysOf(app_usages)
    /\ unmatched_app_icons_keys' = KeysOf(app_icons)
    /\ icon_search_lines' = <<>>
    /\ reference_line' = Nil
    /\ usage_matches' = <<>>
    /\ min_distances_usage' = <<>>
    /\ icons_matched_to_usage' = {}
    /\ name_matches' = <<>>
    /\ min_distances_name' = <<>>
    /\ usage_to_name_map' = <<>>
    /\ min_usage_name_dist' = <<>>
    /\ loop_i' = 1
    /\ UNCHANGED <<detections, image_shape, call, frame, matched_data>>

\* the second call: every local of the function is created anew
CallAgain ==
    /\ pc = "done"
    /\ ret = None
    /\ ret' = ReturnValue
    /\ pc' = "start"
    /\ debug_info' = None
    /\ matched_data' = <<>>
    /\ unmatched_app_names_keys' = KeysOf(app_names)
    /\ unmatched_app_usages_keys' = KeysOf(app_usages)
    /\ unmatched_app_icons_keys' = KeysOf(app_icons)
    /\ icon_search_lines' = <<>>
    /\ reference_line' = Nil
    /\ usage_matches' = <<>>
    /\ min_distances_usage' = <<>>
    /\ icons_matched_to_usage' = {}
    /\ name_matches' = <<>>
    /\ min_distances_name' = <<>>
    /\ usage_to_name_map' = <<>>
    /\ min_usage_name_dist' = <<>>
    /\ loop_i' = 1
    /\ UNCHANGED <<detections, image_shape, call, frame>>

NextTwice ==
    \/ Next
    \/ CallAgain

SpecTwice == Init /\ [][NextTwice]_vars

(***************************************************************************)
(* Two calls of match_app_name_and_usage, the second with the usage        *)
(* detections in another order; ret keeps what the first call returned and *)
(* call the detections it was given                                        *)
(***************************************************************************)
\* icon layouts: none and two icons (fallback); a column with gaps of 50
ReorderedIconLayouts ==
    { <<>>,
      <<Icon(0, 0, 1, 1), Icon(0, 50, 1, 1)>>,
      <<Icon(0, 0, 1, 1), Icon(0, 50, 1, 1), Icon(0, 100, 1, 1)>> }

InitReordered ==
    /\ \E icons \in ReorderedIconLayouts, usages \in SeqsUpTo(UsageBoxes, MaxUsages),
          names \in SeqsUpTo(NameBoxes, MaxNames) :
           detections = icons \o usages \o names
    /\ image_shape \in ImageShapes
    /\ pc = "start"
    /\ reference_line = Nil
    /\ icon_search_lines = <<>>
    /\ usage_matches = <<>>
    /\ min_distances_usage = <<>>
    /\ matched_data = <<>>
    /\ icons_matched_to_usage = {}
    /\ name_matches = <<>>
    /\ min_distances_name = <<>>
    /\ usage_to_name_map = <<>>
    /\ min_usage_name_dist = <<>>
    /\ unmatched_app_names_keys = KeysOf(app_names)
    /\ unmatched_app_usages_keys = KeysOf(app_usages)
    /\ unmatched_app_icons_keys = KeysOf(app_icons)
    /\ debug_info = None
    /\ loop_i = 1
    /\ Idle

\* the lists with the elements of seq in another order
Reorderings(seq) ==
    { [i \in DOMAIN seq |-> seq[q[i]]] : q \in Permutations(DOMAIN seq) } \ {seq}

\* the second call, on the same boxes with the usages reordered
CallReordered ==
    /\ pc = "done"
    /\ ret = None
    /\ ret' = ReturnValue
    /\ call' = [detections |-> detections]
    /\ \E usages \in Reorderings(app_usages) :
           detections' = app_icons \o usages \o app_names
    /\ pc' = "start"
    /\ debug_info' = None
    /\ matched_data' = <<>>
    /\ unmatched_app_names_keys' = KeysOf(app_names)
    /\ unmatched_app_usages_keys' = KeysOf(app_usages)
    /\ unmatched_app_icons_keys' = KeysOf(app_icons)
    /\ icon_search_lines' = <<>>
    /\ reference_line' = Nil
    /\ usage_matches' = <<>>
    /\ min_distances_usage' = <<>>
    /\ icons_matched_to_usage' = {}
    /\ name_matches' = <<>>
    /\ min_distances_name' = <<>>
    /\ usage_to_name_map' = <<>>
    /\ min_usage_name_dist' = <<>>
    /\ loop_i' = 1
    /\ UNCHANGED <<image_shape, frame>>

NextReordered ==
    \/ Next
    \/ CallReordered

SpecReordered == InitReordered /\ [][NextReordered]_vars

(***************************************************************************)
(* distance_to_segment of detection/utils.py, with its 1e-6 in the         *)
(* denominator kept: exact arithmetic on naturals of any size (sequences   *)
(* of base-10000 digits, least significant first, no leading zero)         *)
(***************************************************************************)
RECURSIVE BigCarry(_, _, _)
BigCarry(coeffs, i, carry) ==
    IF i > Len(coeffs)
    THEN IF carry = 0 THEN <<>> ELSE <<carry % 10000>> \o BigCarry(coeffs, i, carry \div 10000)
    ELSE <<(coeffs[i] + carry) % 10000>> \o BigCarry(coeffs, i + 1, (coeffs[i] + carry) \div 10000)

RECURSIVE BigTrim(_)
BigTrim(digits) ==
    IF digits = <<>> THEN <<>>
    ELSE IF digits[Len(digits)] = 0 THEN BigTrim(SubSeq(digits, 1, Len(digits) - 1))
    ELSE digits

BigNorm(coeffs) == BigTrim(BigCarry(coeffs, 1, 0))

BigOfNat(n) == BigNorm(<<n>>)

BigDigit(a, i) == IF i \in DOMAIN a THEN a[i] ELSE 0

BigAdd(a, b) == BigNorm([i \in 1..Max2(Len(a), Len(b)) |-> BigDigit(a, i) + BigDigit(b, i)])

BigMul(a, b) ==
    IF a = <<>> \/ b = <<>> THEN <<>>
    ELSE BigNorm([k \in 1..(Len(a) + Len(b) - 1) |->
                     SumSeq([i \in 1..Len(a) |-> a[i] * BigDigit(b, k + 1 - i)])])

BigSq(n) == BigMul(BigOfNat(Abs(n)), BigOfNat(Abs(n)))

\* detection/utils.py distance_to_segment: the SQUARE of the returned
\* distance as <<s, d>>, standing for s / d^2 (s a natural of any size)
utils_distance_to_segment(point, a, b) ==
    LET dx == b[1] - a[1]
        dy == b[2] - a[2]
        \* t = num / den, both scaled by 10^6: den is dx**2 + dy**2 + 1e-6
        num == ((point[1] - a[1]) * dx + (point[2] - a[2]) * dy) * 1000000
        den == (dx * dx + dy * dy) * 1000000 + 1
    IN IF num < 0
       THEN <<BigAdd(BigSq(point[1] - a[1]), BigSq(point[2] - a[2])), 1>>
       ELSE IF num > den
       THEN <<BigAdd(BigSq(point[1] - b[1]), BigSq(point[2] - b[2])), 1>>
       ELSE \* point - (a + t * (dx, dy)), times den
            <<BigAdd(BigSq((point[1] - a[1]) * den - num * dx),
                     BigSq((point[2] - a[2]) * den - num * dy)), den>>

\* two results of utils_distance_to_segment stand for the same distance
SameUtilsDistance(r1, r2) == BigMul(r1[1], BigSq(r2[2])) = BigMul(r2[1], BigSq(r1[2]))

(***************************************************************************)
(* Unit-level calls of the pure functions                                  *)
(***************************************************************************)
\* the variables of match_app_name_and_usage while no matching runs
NoMatching ==
    /\ detections = <<>>
    /\ image_shape = <<0, 0>>
    /\ reference_line = Nil
    /\ icon_search_lines = <<>>
    /\ usage_matches = <<>>
    /\ min_distances_usage = <<>>
    /\ matched_data = <<>>
    /\ icons_matched_to_usage = {}
    /\ name_matches = <<>>
    /\ min_distances_name = <<>>
    /\ usage_to_name_map = <<>>
    /\ min_usage_name_dist = <<>>
    /\ unmatched_app_names_keys = {}
    /\ unmatched_app_usages_keys = {}
    /\ unmatched_app_icons_keys = {}
    /\ debug_info = None
    /\ loop_i = 1

matching_vars ==
    <<detections, image_shape, reference_line, icon_search_lines, usage_matches,
      min_distances_usage, matched_data, icons_matched_to_usage, name_matches,
      min_distances_name, usage_to_name_map, min_usage_name_dist,
      unmatched_app_names_keys, unmatched_app_usages_keys,
      unmatched_app_icons_keys, debug_info, loop_i>>

CallReturned(fn) == pc = "returned" /\ call.fn = fn

(* ---- create_search_line ---- *)
MaxRayBoxes == 2

\* ray starts inside and outside a 60 x 40 image
RayCoords == {-5, 0, 10, 30, 45}

RayShapes == { <<40, 60>> }

\* the box around (10, 10); a box to its right; a box below it; a box right
\* of the image
RayBoxes ==
    { [x |-> 5, y |-> 5, w |-> 10, h |-> 10],
      [x |-> 30, y |-> 0, w |-> 10, h |-> 20],
      [x |-> 5, y |-> 30, w |-> 10, h |-> 5],
      [x |-> 70, y |-> 5, w |-> 10, h |-> 10] }

RayCalls ==
    [fn : {"create_search_line"}, center : RayCoords \X RayCoords,
     orientation : {"vertical", "horizontal"},
     boxes : SeqsUpTo(RayBoxes, MaxRayBoxes), shape : RayShapes]

InitRay ==
    /\ pc = "call"
    /\ call \in RayCalls
    /\ ret = None
    /\ frame = None
    /\ NoMatching

CreateSearchLine ==
    /\ pc = "call"
    /\ call.fn = "create_search_line"
    /\ ret' = create_search_line(call.center, <<call.orientation, <<0, 0>>, <<0, 0>>>>,
                                 call.boxes, call.shape[2], call.shape[1],
                                 search_line_tolerance)
    /\ pc' = "returned"
    /\ UNCHANGED <<call, frame, matching_vars>>

NextRay == CreateSearchLine

SpecRay == InitRay /\ [][NextRay]_vars

(* ---- find_reference_line ---- *)
MaxCenters == 4

\* a column with steps of 30 and one step of 15, a row and a diagonal through
\* (0, 0), and a point beside the column
CenterPoints ==
    { <<0, 0>>, <<0, 15>>, <<0, 30>>, <<0, 60>>, <<0, 90>>, <<0, 120>>,
      <<30, 0>>, <<60, 0>>, <<30, 30>>, <<60, 60>>, <<10, 30>> }

LineShapes == { <<400, 300>> }

LineCalls ==
    [fn : {"find_reference_line"}, icon_centers : SeqsUpTo(CenterPoints, MaxCenters),
     shape : LineShapes]

\* the centers handed to GridProcessor: the same without the two far points
GridCenterPoints == CenterPoints \ { <<0, 90>>, <<0, 120>> }

GridLineCalls ==
    [fn : {"GridProcessor.find_reference_line"},
     icon_centers : SeqsUpTo(GridCenterPoints, MaxCenters), shape : LineShapes]

InitLine ==
    /\ pc = "call"
    /\ call \in LineCalls \cup GridLineCalls
    /\ ret = None
    /\ frame = None
    /\ NoMatching

\* the call returns line; chain is the best_line it was fitted through, tried
\* the orientations it called try_orientation with
FindReferenceLineCall ==
    /\ pc = "call"
    /\ call.fn = "find_reference_line"
    /\ \E line \in {find_reference_line(call.icon_centers, call.shape, ref_line_min_icons)} :
           ret' = [line |-> line,
                   chain |-> IF line = Nil THEN Nil
                             ELSE best_line(call.icon_centers, ref_line_min_icons),
                   tried |-> OrientationsTried(call.icon_centers, ref_line_min_icons)]
    /\ pc' = "returned"
    /\ UNCHANGED <<call, frame, matching_vars>>

GridFindReferenceLineCall ==
    /\ pc = "call"
    /\ call.fn = "GridProcessor.find_reference_line"
    /\ \E line \in {GridProcessor_find_reference_line(call.icon_centers, call.shape,
                                                      ref_line_min_icons)} :
           ret' = [line |-> line,
                   chain |-> IF line = Nil THEN Nil
                             ELSE GridProcessor_best_line(call.icon_centers,
                                                          ref_line_min_icons),
                   tried |-> GridOrientationsTried(call.icon_centers, ref_line_min_icons)]
    /\ pc' = "returned"
    /\ UNCHANGED <<call, frame, matching_vars>>

NextLine ==
    \/ FindReferenceLineCall
    \/ GridFindReferenceLineCall

SpecLine == InitLine /\ [][NextLine]_vars

(* ---- try_orientation, one turn of its loops at a time ---- *)
MaxChainCenters == 4

\* a column with steps of 15, a point beside it that comes between two of
\* them in sorted order, and a point that continues the column with a turn
ChainPoints == { <<0, 0>>, <<0, 15>>, <<30, 20>>, <<0, 30>>, <<10, 60>> }

ChainCalls ==
    [fn : {"try_orientation"}, centers_list : SeqsUpTo(ChainPoints, MaxChainCenters),
     orientation : {"vertical", "horizontal"}]

\* before the call; the arguments come with the call itself
InitChain ==
    /\ pc = "call"
    /\ call = None
    /\ ret = None
    /\ frame = None
    /\ NoMatching

\* line 117: current_line = [centers_sorted[start_idx]]; used_indices = {start_idx}
StartLine(centers_sorted, start_idx, best) ==
    [centers_sorted |-> centers_sorted, start_idx |-> start_idx,
     current_line |-> <<centers_sorted[start_idx]>>, used_indices |-> {start_idx},
     best |-> best]

\* lines 106-117: the early return, or the sort and the first start index
TryOrientationEnter ==
    /\ pc = "call"
    /\ call = None
    /\ \E c \in ChainCalls :
           /\ call' = c
           /\ IF Len(c.centers_list) < ref_line_min_icons
              THEN /\ ret' = [best_line_points |-> Nil]
                   /\ pc' = "returned"
                   /\ frame' = frame
              ELSE /\ frame' = StartLine(SortByAxis(c.centers_list,
                                                    IF c.orientation = "vertical" THEN 2 ELSE 1),
                                         1, <<Nil, <<-1, 1>>>>)
                   /\ pc' = "extend"
                   /\ ret' = ret
    /\ UNCHANGED matching_vars

\* lines 119-160: one turn of the while True loop
ExtendChainStep ==
    /\ pc = "extend"
    /\ call.fn = "try_orientation"
    /\ \E best_next_idx \in {NextChainIdx(frame.centers_sorted, frame.current_line,
                                          frame.used_indices, call.orientation)} :
           IF best_next_idx # 0
           THEN /\ frame' = [frame EXCEPT
                                !.current_line = Append(@, frame.centers_sorted[best_next_idx]),
                                !.used_indices = @ \cup {best_next_idx}]
                /\ pc' = "extend"
           ELSE /\ frame' = frame
                /\ pc' = "score"
    /\ UNCHANGED <<call, ret, matching_vars>>

\* lines 161-170: the finished line is scored; then the next start index, or
\* the return of best_line_points
ScoreLine ==
    /\ pc = "score"
    /\ call.fn = "try_orientation"
    /\ \E best \in {BetterLine(frame.best, frame.current_line, ref_line_min_icons)} :
           IF frame.start_idx < Len(frame.centers_sorted)
           THEN /\ frame' = StartLine(frame.centers_sorted, frame.start_idx + 1, best)
                /\ pc' = "extend"
                /\ ret' = ret
           ELSE /\ frame' = [frame EXCEPT !.best = best]
                /\ ret' = [best_line_points |-> best[1]]
                /\ pc' = "returned"
    /\ UNCHANGED <<call, matching_vars>>

GridChainCalls ==
    [fn : {"GridProcessor.try_orientation"},
     centers_list : SeqsUpTo(ChainPoints, MaxChainCenters),
     orientation : {"vertical", "horizontal"}]

\* grid_processor.py lines 78-87: the sort; best_line = None, best_score = 0
GridTryOrientationEnter ==
    /\ pc = "call"
    /\ call = None
    /\ \E c \in GridChainCalls :
           /\ call' = c
           /\ frame' = [centers |-> SortByAxis(c.centers_list,
                                               IF c.orientation = "vertical" THEN 2 ELSE 1),
                        start_idx |-> 1, current_line |-> <<>>,
                        remaining_centers |-> <<>>, best |-> <<Nil, <<0, 1>>>>]
    /\ pc' = "grid_for"
    /\ UNCHANGED <<ret, matching_vars>>

\* lines 89-108 and 149: the next start index with its first link, the next
\* turn of the for loop when there is no first link, or the return
GridStartLine ==
    /\ pc = "grid_for"
    /\ IF frame.start_idx > Len(frame.centers) - ref_line_min_icons + 1
       THEN /\ ret' = [best_line_points |-> frame.best[1]]
            /\ pc' = "returned"
            /\ frame' = frame
       ELSE /\ \E started \in {GridStart(frame.centers, frame.start_idx, call.orientation)} :
                   IF started = Nil
                   THEN /\ frame' = [frame EXCEPT !.start_idx = @ + 1]
                        /\ pc' = "grid_for"
                   ELSE /\ frame' = [frame EXCEPT !.current_line = started[1],
                                                  !.remaining_centers = started[2]]
                        /\ pc' = "grid_while"
            /\ ret' = ret
    /\ UNCHANGED <<call, matching_vars>>

\* lines 110-141: one turn of the while True loop
GridExtendStep ==
    /\ pc = "grid_while"
    /\ \E best_next \in {GridNextPoint(frame.current_line, frame.remaining_centers,
                                       call.orientation)} :
           IF best_next # Nil
           THEN /\ frame' = [frame EXCEPT
                                !.current_line = Append(@, best_next),
                                !.remaining_centers = WithoutPoint(@, best_next)]
                /\ pc' = "grid_while"
           ELSE /\ frame' = frame
                /\ pc' = "grid_score"
    /\ UNCHANGED <<call, ret, matching_vars>>

\* lines 143-147, then the next turn of the for loop
GridScoreLine ==
    /\ pc = "grid_score"
    /\ frame' = [frame EXCEPT
                    !.best = GridBetterLine(@, frame.current_line, ref_line_min_icons),
                    !.start_idx = @ + 1]
    /\ pc' = "grid_for"
    /\ UNCHANGED <<call, ret, matching_vars>>

NextChain ==
    \/ TryOrientationEnter
    \/ ExtendChainStep
    \/ ScoreLine
    \/ GridTryOrientationEnter
    \/ GridStartLine
    \/ GridExtendStep
    \/ GridScoreLine

SpecChain == InitChain /\ [][NextChain]_vars

\* the interpreter keeps running a while True loop it has entered
SpecChainFair == SpecChain /\ WF_vars(ExtendChainStep) /\ WF_vars(GridExtendStep)

(* ---- distance_to_segment, both implementations ---- *)
MaxCoord == 3

DistPoints == (0..MaxCoord) \X (0..MaxCoord)

DistCalls ==
    [fn : {"distance_to_segment"}, point : DistPoints, a : DistPoints, b : DistPoints]
    \cup {[fn |-> "distance_to_segment", point |-> <<0, 10>>, a |-> <<0, 0>>, b |-> <<0, 5>>]}

InitDist ==
    /\ pc = "call"
    /\ call \in DistCalls
    /\ ret = None
    /\ frame = None
    /\ NoMatching

LayoutDistanceToSegment ==
    /\ pc = "call"
    /\ call.fn = "distance_to_segment"
    /\ ret' = [impl |-> "layout_analysis",
               value |-> distance_to_segment(call.point, call.a, call.b)]
    /\ pc' = "returned"
    /\ UNCHANGED <<call, frame, matching_vars>>

UtilsDistanceToSegment ==
    /\ pc = "call"
    /\ call.fn = "distance_to_segment"
    /\ ret' = [impl |-> "detection.utils",
               value |-> utils_distance_to_segment(call.point, call.a, call.b)]
    /\ pc' = "returned"
    /\ UNCHANGED <<call, frame, matching_vars>>

NextDist ==
    \/ LayoutDistanceToSegment
    \/ UtilsDistanceToSegment

SpecDist == InitDist /\ [][NextDist]_vars

(* ---- detect_grid, both implementations ---- *)
MaxGridCenters == 4

\* centers with y-gaps below, at and above 50
GridPoints == { <<0, 0>>, <<7, 50>>, <<0, 51>>, <<3, 101>>, <<0, 160>> }

DetectGridCalls ==
    [fn : {"detect_grid", "GridProcessor.detect_grid"},
     icon_centers : SeqsUpTo(GridPoints, MaxGridCenters)]

InitGrid ==
    /\ pc = "call"
    /\ call \in DetectGridCalls
    /\ ret = None
    /\ frame = None
    /\ NoMatching

DetectGridCall ==
    /\ pc = "call"
    /\ call.fn = "detect_grid"
    /\ ret' = [grid |-> detect_grid(call.icon_centers)]
    /\ pc' = "returned"
    /\ UNCHANGED <<call, frame, matching_vars>>

GridDetectGridCall ==
    /\ pc = "call"
    /\ call.fn = "GridProcessor.detect_grid"
    /\ ret' = [grid |-> GridProcessor_detect_grid(call.icon_centers)]
    /\ pc' = "returned"
    /\ UNCHANGED <<call, frame, matching_vars>>

NextGrid ==
    \/ DetectGridCall
    \/ GridDetectGridCall

SpecGrid == InitGrid /\ [][NextGrid]_vars

(***************************************************************************)
(* create_search_line of detection/utils.py.  The ray direction (dx, dy)   *)
(* is kept as the integer vector it is a positive multiple of, and every   *)
(* ray parameter t as the fraction t / hypot of that vector, which leaves  *)
(* the comparisons of the code unchanged                                   *)
(***************************************************************************)
\* lines 7-21: (1, 0) for ref_dx = 0, (0, 1) for a slope of 0, otherwise
\* (1, -1 / ref_slope) scaled by |ref_dy|
utils_direction(ref_line) ==
    LET ref_dx == ref_line[3][1] - ref_line[2][1]
        ref_dy == ref_line[3][2] - ref_line[2][2]
    IN IF ref_dx = 0 THEN <<1, 0>>
       ELSE IF ref_dy = 0 THEN <<0, 1>>
       ELSE <<Abs(ref_dy), IF ref_dy > 0 THEN -ref_dx ELSE ref_dx>>

\* lo <= f <= hi for a fraction f
FracWithin(f, lo, hi) == lo * f[2] <= f[1] /\ f[1] <= hi * f[2]

\* one edge test (lines 40-45, 49-54, 60-65, 69-74): acc = <<closest_t,
\* end_x, end_y>>, closest_t = Nil standing for float('inf')
EdgeHit(acc, t, across, lo, hi, end_x, end_y) ==
    IF /\ t[1] > 0
       /\ FracWithin(across, lo, hi)
       /\ (acc[1] = Nil \/ FracLess(t, acc[1]))
    THEN <<t, end_x, end_y>> ELSE acc

\* lines 37-54: left edge, then right edge, when dx # 0
VerticalChecks(acc, center, d, icon, tolerance) ==
    IF d[1] = 0 THEN acc
    ELSE LET y_left == Frac(center[2] * d[1] + d[2] * (icon.x - center[1]), d[1])
             y_right == Frac(center[2] * d[1] + d[2] * (icon.x + icon.w - center[1]), d[1])
             after_left == EdgeHit(acc, Frac(icon.x - center[1], d[1]), y_left,
                                   icon.y - tolerance, icon.y + icon.h + tolerance,
                                   <<icon.x, 1>>, y_left)
         IN EdgeHit(after_left, Frac(icon.x + icon.w - center[1], d[1]), y_right,
                    icon.y - tolerance, icon.y + icon.h + tolerance,
                    <<icon.x + icon.w, 1>>, y_right)

\* lines 57-74: top edge, then bottom edge, when dy # 0
HorizontalChecks(acc, center, d, icon, tolerance) ==
    IF d[2] = 0 THEN acc
    ELSE LET x_top == Frac(center[1] * d[2] + d[1] * (icon.y - center[2]), d[2])
             x_bottom == Frac(center[1] * d[2] + d[1] * (icon.y + icon.h - center[2]), d[2])
             after_top == EdgeHit(acc, Frac(icon.y - center[2], d[2]), x_top,
                                  icon.x - tolerance, icon.x + icon.w + tolerance,
                                  x_top, <<icon.y, 1>>)
         IN EdgeHit(after_top, Frac(icon.y + icon.h - center[2], d[2]), x_bottom,
                    icon.x - tolerance, icon.x + icon.w + tolerance,
                    x_bottom, <<icon.y + icon.h, 1>>)

\* the for icon in all_icon_bboxes loop (line 33), from index i on
RECURSIVE Collisions(_, _, _, _, _, _)
Collisions(acc, center, d, all_icon_bboxes, tolerance, i) ==
    IF i > Len(all_icon_bboxes) THEN acc
    ELSE Collisions(HorizontalChecks(VerticalChecks(acc, center, d, all_icon_bboxes[i],
                                                    tolerance),
                                     center, d, all_icon_bboxes[i], tolerance),
                    center, d, all_icon_bboxes, tolerance, i + 1)

\* lines 4-76; the except branch of line 78 is not reached with a reference
\* line of GridProcessor and integer boxes
utils_create_search_line(center, ref_orientation, ref_line, all_icon_bboxes, image_width, image_height, tolerance) ==
    LET d == utils_direction(ref_line)
        start == <<Nil,
                   <<IF d[1] > 0 THEN image_width ELSE 0, 1>>,
                   <<IF d[2] > 0 THEN image_height ELSE 0, 1>>>>
        hit == Collisions(start, center, d, all_icon_bboxes, tolerance, 1)
    IN <<ref_orientation, center, <<TruncInt(hit[2]), TruncInt(hit[3])>>>>

(***************************************************************************)
(* AppMatcher.match_app_components (detection/matcher.py), one action per  *)
(* step; its locals live in frame, an exception ends the call in "raised"  *)
(***************************************************************************)
\* a < b for two naturals of any size with the same number of digits or not
RECURSIVE BigLess(_, _)
BigLess(a, b) ==
    IF Len(a) # Len(b) THEN Len(a) < Len(b)
    ELSE IF a = <<>> THEN FALSE
    ELSE IF a[Len(a)] # b[Len(b)] THEN a[Len(a)] < b[Len(b)]
    ELSE BigLess(SubSeq(a, 1, Len(a) - 1), SubSeq(b, 1, Len(b) - 1))

\* r1 < r2 for two results of utils_distance_to_segment
UtilsDistanceLess(r1, r2) ==
    BigLess(BigMul(r1[1], BigSq(r2[2])), BigMul(r2[1], BigSq(r1[2])))

\* list.index: the first position of x in s, 0 when x is not in s
IndexOf(s, x) ==
    IF \E i \in DOMAIN s : s[i] = x THEN SetMin({i \in DOMAIN s : s[i] = x}) ELSE 0

\* list.remove(x) where x is in s
RemoveFirst(s, x) == DeleteAt(s, IndexOf(s, x))

\* lines 31-47: one search line per icon, every icon box in all_icon_bboxes
MatcherSearchLines(icons, ref_line, shape) ==
    [i \in DOMAIN icons |->
        [icon |-> icons[i],
         search_line |-> utils_create_search_line(IconCenter(icons[i]), ref_line[1],
                                                  ref_line, icons, shape[2], shape[1],
                                                  search_line_tolerance)]]

\* lines 22-47
MatcherLinesOf(icons, shape) ==
    IF icons = <<>> THEN <<>>
    ELSE LET ref_line ==
                 GridProcessor_find_reference_line(
                     [i \in DOMAIN icons |-> IconCenter(icons[i])], shape,
                     ref_line_min_icons)
         IN IF ref_line = Nil THEN <<>> ELSE MatcherSearchLines(icons, ref_line, shape)

\* lines 12-47: the lists, the reference line and the search lines
MatcherEnter ==
    /\ pc = "call"
    /\ call.fn = "AppMatcher.match_app_components"
    /\ frame' = [matched_data |-> <<>>,
                 unmatched_app_names |-> SelectLabel(call.detections, "app_name"),
                 unmatched_app_usages |-> SelectLabel(call.detections, "app_usage"),
                 unmatched_app_icons |-> SelectLabel(call.detections, "app_icon"),
                 icon_search_lines |->
                     MatcherLinesOf(SelectLabel(call.detections, "app_icon"),
                                    call.image_shape),
                 i |-> 1]
    /\ pc' = IF frame'.icon_search_lines # <<>> THEN "matcher_usages" ELSE "matcher_fallback"
    /\ UNCHANGED <<call, ret, matching_vars>>

\* lines 58-63: the for icon, search_line loop from index i on; acc =
\* <<min_distance, best_match>>, min_distance = Nil standing for float('inf')
RECURSIVE MatcherBestIcon(_, _, _, _)
MatcherBestIcon(usage_center, lines, i, acc) ==
    IF i > Len(lines) THEN acc
    ELSE MatcherBestIcon(usage_center, lines, i + 1,
             CHOOSE next \in
                 { IF /\ UtilsDistanceLess(distance, <<BigOfNat(200 * 200), 1>>)
                      /\ (acc[1] = Nil \/ UtilsDistanceLess(distance, acc[1]))
                   THEN <<distance, lines[i].icon>> ELSE acc :
                   distance \in {utils_distance_to_segment(usage_center,
                                                           lines[i].search_line[2],
                                                           lines[i].search_line[3])} } :
                 TRUE)

MatchedIcons(data) == {data[m].app_icon : m \in DOMAIN data}

\* lines 50-72: one turn of the for app_usage loop
MatcherUsage ==
    /\ pc = "matcher_usages"
    /\ frame.i <= Len(SelectLabel(call.detections, "app_usage"))
    /\ \E app_usage \in {SelectLabel(call.detections, "app_usage")[frame.i]} :
       \E best_match \in {MatcherBestIcon(IconCenter(app_usage), frame.icon_search_lines,
                                          1, <<Nil, None>>)[2]} :
           IF best_match = None \/ best_match \in MatchedIcons(frame.matched_data)
           THEN /\ frame' = [frame EXCEPT !.i = @ + 1]
                /\ UNCHANGED <<pc, ret>>
           ELSE IF /\ IndexOf(frame.unmatched_app_icons, best_match) # 0
                   /\ IndexOf(frame.unmatched_app_usages, app_usage) # 0
           THEN /\ frame' = [frame EXCEPT
                                !.matched_data =
                                    Append(@, [app_usage |-> app_usage,
                                               app_icon |-> best_match,
                                               app_name |-> None]),
                                !.unmatched_app_icons = RemoveFirst(@, best_match),
                                !.unmatched_app_usages = RemoveFirst(@, app_usage),
                                !.i = @ + 1]
                /\ UNCHANGED <<pc, ret>>
           ELSE /\ pc' = "raised"
                /\ ret' = [exception |-> "ValueError"]
                /\ UNCHANGED frame
    /\ UNCHANGED <<call, matching_vars>>

\* the for app_usage loop is over: on to the names
MatcherUsagesDone ==
    /\ pc = "matcher_usages"
    /\ frame.i > Len(SelectLabel(call.detections, "app_usage"))
    /\ pc' = "matcher_names"
    /\ frame' = [frame EXCEPT !.i = 1]
    /\ UNCHANGED <<call, ret, matching_vars>>

\* lines 82-96: the for app_name loop from index i on; acc = <<squared
\* min_name_distance, closest_name>>, -1 standing for float('inf')
RECURSIVE MatcherClosestName(_, _, _, _, _)
MatcherClosestName(center, names, limit_sq, i, acc) ==
    IF i > Len(names) THEN acc
    ELSE LET distance_sq == NormSq(Sub(IconCenter(names[i]), center))
         IN MatcherClosestName(center, names, limit_sq, i + 1,
                IF /\ (limit_sq = -1 \/ distance_sq < limit_sq)
                   /\ (acc[1] = -1 \/ distance_sq < acc[1])
                THEN <<distance_sq, names[i]>> ELSE acc)

\* lines 75-100: one turn of the for match loop; the name is written into the
\* record before unmatched_app_names.remove raises
MatcherName ==
    /\ pc = "matcher_names"
    /\ frame.i <= Len(frame.matched_data)
    /\ \E closest_name \in
           {MatcherClosestName(IconCenter(frame.matched_data[frame.i].app_icon),
                               SelectLabel(call.detections, "app_name"),
                               120 * 120, 1, <<-1, None>>)[2]} :
           IF closest_name = None
           THEN /\ frame' = [frame EXCEPT !.i = @ + 1]
                /\ UNCHANGED <<pc, ret>>
           ELSE IF IndexOf(frame.unmatched_app_names, closest_name) # 0
           THEN /\ frame' = [frame EXCEPT
                                !.matched_data[frame.i].app_name = closest_name,
                                !.unmatched_app_names = RemoveFirst(@, closest_name),
                                !.i = @ + 1]
                /\ UNCHANGED <<pc, ret>>
           ELSE /\ frame' = [frame EXCEPT !.matched_data[frame.i].app_name = closest_name]
                /\ pc' = "raised"
                /\ ret' = [exception |-> "ValueError"]
    /\ UNCHANGED <<call, matching_vars>>

\* the for match loop is over: on to line 103
MatcherNamesDone ==
    /\ pc = "matcher_names"
    /\ frame.i > Len(frame.matched_data)
    /\ pc' = "matcher_fallback"
    /\ frame' = [frame EXCEPT !.i = 1]
    /\ UNCHANGED <<call, ret, matching_vars>>

\* lines 103-131: one turn of the for app_usage loop of the fallback; the
\* record is appended and the usage removed before unmatched_app_names.remove
\* raises
MatcherFallbackUsage ==
    /\ pc = "matcher_fallback"
    /\ frame.icon_search_lines = <<>>
    /\ frame.i <= Len(SelectLabel(call.detections, "app_usage"))
    /\ \E app_usage \in {SelectLabel(call.detections, "app_usage")[frame.i]} :
       \E closest_name \in
           {MatcherClosestName(IconCenter(app_usage),
                               SelectLabel(call.detections, "app_name"),
                               -1, 1, <<-1, None>>)[2]} :
           IF closest_name = None
           THEN /\ frame' = [frame EXCEPT !.i = @ + 1]
                /\ UNCHANGED <<pc, ret>>
           ELSE IF IndexOf(frame.unmatched_app_usages, app_usage) = 0
           THEN /\ frame' = [frame EXCEPT
                                !.matched_data =
                                    Append(@, [app_usage |-> app_usage,
                                               app_icon |-> None,
                                               app_name |-> closest_name])]
                /\ pc' = "raised"
                /\ ret' = [exception |-> "ValueError"]
           ELSE IF IndexOf(frame.unmatched_app_names, closest_name) = 0
           THEN /\ frame' = [frame EXCEPT
                                !.matched_data =
                                    Append(@, [app_usage |-> app_usage,
                                               app_icon |-> None,
                                               app_name |-> closest_name]),
                                !.unmatched_app_usages = RemoveFirst(@, app_usage)]
                /\ pc' = "raised"
                /\ ret' = [exception |-> "ValueError"]
           ELSE /\ frame' = [frame EXCEPT
                                !.matched_data =
                                    Append(@, [app_usage |-> app_usage,
                                               app_icon |-> None,
                                               app_name |-> closest_name]),
                                !.unmatched_app_usages = RemoveFirst(@, app_usage),
                                !.unmatched_app_names = RemoveFirst(@, closest_name),
                                !.i = @ + 1]
                /\ UNCHANGED <<pc, ret>>
    /\ UNCHANGED <<call, matching_vars>>

\* lines 133-140
MatcherReturn ==
    /\ pc = "matcher_fallback"
    /\ \/ frame.icon_search_lines # <<>>
       \/ frame.i > Len(SelectLabel(call.detections, "app_usage"))
    /\ ret' = [matched_data |-> frame.matched_data,
               unmatched |-> [names |-> frame.unmatched_app_names,
                              usages |-> frame.unmatched_app_usages,
                              icons |-> frame.unmatched_app_icons]]
    /\ pc' = "returned"
    /\ UNCHANGED <<call, frame, matching_vars>>

MaxMatcherUsages == 2

MaxMatcherNames == 2

\* none; two icons; a column, a row and a tilted column of three icons 2 x 2
MatcherIconLayouts ==
    { <<>>,
      <<Icon(0, 0, 2, 2), Icon(0, 20, 2, 2)>>,
      <<Icon(0, 0, 2, 2), Icon(0, 20, 2, 2), Icon(0, 40, 2, 2)>>,
      <<Icon(0, 0, 2, 2), Icon(20, 0, 2, 2), Icon(40, 0, 2, 2)>>,
      <<Icon(0, 0, 2, 2), Icon(1, 20, 2, 2), Icon(2, 40, 2, 2)>> }

\* usage boxes 4 x 2 beside the icons at y = 0 and y = 20, and one below
MatcherUsageBoxes == { Usage(10, 0, 4, 2), Usage(10, 20, 4, 2), Usage(0, 50, 4, 2) }

\* name boxes 4 x 2 beside the icons at y = 0 and y = 40
MatcherNameBoxes == { Name(4, 0, 4, 2), Name(4, 40, 4, 2) }

MatcherCalls ==
    { [fn |-> "AppMatcher.match_app_components",
       detections |-> icons \o usages \o names,
       image_shape |-> <<60, 60>>] :
      icons \in MatcherIconLayouts,
      usages \in SeqsUpTo(MatcherUsageBoxes, MaxMatcherUsages),
      names \in SeqsUpTo(MatcherNameBoxes, MaxMatcherNames) }

InitMatcher ==
    /\ pc = "call"
    /\ call \in MatcherCalls
    /\ ret = None
    /\ frame = None
    /\ NoMatching

NextMatcher ==
    \/ MatcherEnter
    \/ MatcherUsage
    \/ MatcherUsagesDone
    \/ MatcherName
    \/ MatcherNamesDone
    \/ MatcherFallbackUsage
    \/ MatcherReturn

SpecMatcher == InitMatcher /\ [][NextMatcher]_vars

(***************************************************************************)
(* Properties of match_app_name_and_usage                                  *)
(***************************************************************************)
Returned == pc = "done"

RayPath == reference_line # Nil

Fields == {"app_usage", "app_icon", "app_name"}

\* the keys a dict maps to, counted with multiplicity
Injective(d) == \A i, j \in DOMAIN d : d[i][2] = d[j][2] => i = j

\* C1: no icon, name or usage box, identified by (x, y, w, h), is in more than
\* one match record, and no icon (on the fallback path: no name) is claimed by
\* two boxes at once, at any step of either path.
C1_NoBoxInTwoRecords ==
    /\ \A i, j \in DOMAIN matched_data : \A f \in Fields :
           (/\ matched_data[i][f] # None
            /\ matched_data[j][f] # None
            /\ Key(matched_data[i][f]) = Key(matched_data[j][f])) => i = j
    /\ Injective(usage_matches)
    /\ Injective(name_matches)
    /\ Injective(usage_to_name_map)

\* a usage was displaced from an icon that ends in a record beside another record
C1_Witness ==
    /\ Returned
    /\ RayPath
    /\ Len(matched_data) = 2
    /\ \E i \in DOMAIN matched_data : matched_data[i].app_name # None
    /\ Len(debug_info.unmatched_app_usages) = 1
    /\ Key(app_usages[1]) \in unmatched_app_usages_keys

\* the number of elements of a sequence of detections equal to d
CountIn(dets, d) == Cardinality({i \in DOMAIN dets : dets[i] = d})

\* the number of match records holding d in field f
CountInRecords(f, d) == Cardinality({i \in DOMAIN matched_data : matched_data[i][f] = d})

\* C2: every name, usage and icon detection of the input is in exactly one
\* place of the output: as many times in the records and the unmatched list
\* of its label, taken together, as it occurs in the input.
C2_EveryDetectionInOnePlace ==
    Returned =>
        /\ \A i \in DOMAIN app_names :
               CountIn(app_names, app_names[i]) =
                   CountInRecords("app_name", app_names[i])
                   + CountIn(debug_info.unmatched_app_names, app_names[i])
        /\ \A i \in DOMAIN app_usages :
               CountIn(app_usages, app_usages[i]) =
                   CountInRecords("app_usage", app_usages[i])
                   + CountIn(debug_info.unmatched_app_usages, app_usages[i])
        /\ \A i \in DOMAIN app_icons :
               CountIn(app_icons, app_icons[i]) =
                   CountInRecords("app_icon", app_icons[i])
                   + CountIn(debug_info.unmatched_app_icons, app_icons[i])

\* no two detections of one label share (x, y, w, h)
DistinctBoxes(dets) == \A i, j \in DOMAIN dets : dets[i] = dets[j] => i = j

\* the same accounting for inputs without repeated boxes (it holds: the
\* detections that C2 loses are the repeated ones)
C2_HoldsWithoutRepeatedBoxes ==
    (DistinctBoxes(app_names) /\ DistinctBoxes(app_usages) /\ DistinctBoxes(app_icons))
        => C2_EveryDetectionInOnePlace

\* C3: every record holds a usage; on the ray-based path it also holds an
\* icon, on the fallback path it holds a name and no icon.
C3_RecordShape ==
    \A i \in DOMAIN matched_data :
        /\ matched_data[i].app_usage # None
        /\ RayPath => matched_data[i].app_icon # None
        /\ ~RayPath => (matched_data[i].app_name # None /\ matched_data[i].app_icon = None)

\* both shapes of record are produced: here a ray-path record without a name
C3_Witness ==
    /\ Returned
    /\ RayPath
    /\ app_names # <<>>
    /\ \E i \in DOMAIN matched_data : matched_data[i].app_name = None
    /\ \E i \in DOMAIN matched_data : matched_data[i].app_name # None

\* C4: with fewer than ref_line_min_icons icons there is no reference line and
\* no search ray at any step, and on return every icon is unmatched and every
\* record has icon = None.
C4_FewIconsFallbackOnly ==
    Len(app_icons) < ref_line_min_icons =>
        /\ reference_line = Nil
        /\ icon_search_lines = <<>>
        /\ pc \notin {"search_lines", "phase1", "phase2"}
        /\ \A i \in DOMAIN matched_data : matched_data[i].app_icon = None
        /\ Returned => debug_info.unmatched_app_icons = app_icons

C4_Witness ==
    /\ Returned
    /\ Len(app_icons) = 2
    /\ Len(matched_data) = 2

\* the search line nearest to a usage within the usage threshold:
\* <<squared distance, icon key>>, the key Nil when there is none
NearestForUsage(usage_det) ==
    NearestSearchLine(get_centroid(usage_det), icon_search_lines, KeysOf(app_icons), 1,
                      <<ThresholdSq(USAGE_SEARCH_DISTANCE_THRESHOLD), Nil>>)

\* the usages (indices) whose nearest in-threshold search line is that of icon_key
Rivals(icon_key) == {i \in DOMAIN app_usages : NearestForUsage(app_usages[i])[2] = icon_key}

Phase1Over == RayPath /\ pc \in {"phase2", "fallback_gate", "finish", "done"}

C6_Scenario ==
    <<Icon(0, 0, 1, 1), Icon(0, 100, 1, 1), Icon(0, 200, 1, 1),
      Usage(0, 100, 10, 10), Name(0, 90, 16, 16)>>

\* C6: that scenario gives a vertical reference line and one record with the
\* icon at (0, 100), the usage and the name; the other two icons are unmatched.
C6_EndToEnd ==
    (Returned /\ detections = C6_Scenario) =>
        /\ reference_line # Nil
        /\ reference_line[1] = "vertical"
        /\ matched_data = <<[app_usage |-> Usage(0, 100, 10, 10),
                             app_icon |-> Icon(0, 100, 1, 1),
                             app_name |-> Name(0, 90, 16, 16)]>>
        /\ debug_info.unmatched_app_icons = <<Icon(0, 0, 1, 1), Icon(0, 200, 1, 1)>>

\* what the code returns for it: no reference line (the icons are 100 apart,
\* ref_line_max_gap is 60), the usage and the name paired by the fallback
C6_Observed ==
    (Returned /\ detections = C6_Scenario) =>
        /\ reference_line = Nil
        /\ icon_search_lines = <<>>
        /\ matched_data = <<[app_usage |-> Usage(0, 100, 10, 10),
                             app_icon |-> None,
                             app_name |-> Name(0, 90, 16, 16)]>>
        /\ Len(debug_info.unmatched_app_icons) = 3


C7_RayEndInsideImage ==
    CallReturned("create_search_line") =>
        /\ ret[3][1] >= 0 /\ ret[3][1] <= call.shape[2]
        /\ ret[3][2] >= 0 /\ ret[3][2] <= call.shape[1]

\* a ray from the centre of its own box, stopped 5 px before the box to its
\* right instead of at the image edge (x = 60)
C7_Witness ==
    /\ CallReturned("create_search_line")
    /\ call.center = <<10, 10>>
    /\ call.orientation = "vertical"
    /\ call.boxes = << [x |-> 5, y |-> 5, w |-> 10, h |-> 10],
                       [x |-> 30, y |-> 0, w |-> 10, h |-> 20] >>
    /\ ret = <<"vertical", <<10, 10>>, <<25, 10>>>>

(***************************************************************************)
(* Properties of find_reference_line                                       *)
(***************************************************************************)
\* the points are pairwise different and are start, start + step, ...,
\* start + (n - 1) * step in some order
OnUniformLine(points, step) ==
    /\ Cardinality(Range(points)) = Len(points)
    /\ \E start \in Range(points) :
           Range(points) = { <<start[1] + k * step[1], start[2] + k * step[2]>> :
                                 k \in 0..(Len(points) - 1) }

Steps(points) == { Sub(q, p) : p, q \in Range(points) } \ { <<0, 0>> }

\* the chain holds every point once and the fitted line runs along step
FullChainTrueSlope(step) ==
    /\ ret.line # Nil
    /\ ret.chain # Nil
    /\ Len(ret.chain) = Len(call.icon_centers)
    /\ Range(ret.chain) = Range(call.icon_centers)
    /\ Cross(FittedDirection(ret.chain), step) = 0

\* C9 (as the code has it): given at least min_icons icon centres on one
\* straight line with uniform spacing strictly below max_gap, the chain chosen
\* by find_reference_line contains every point and the fitted line has the
\* true slope of the points.
C9_UniformLineFullChain ==
    CallReturned("find_reference_line") =>
        \A step \in Steps(call.icon_centers) :
            ( /\ Len(call.icon_centers) >= ref_line_min_icons
              /\ OnUniformLine(call.icon_centers, step)
              /\ NormSq(step) < ref_line_max_gap * ref_line_max_gap )
            => FullChainTrueSlope(step)

\* C9 as stated: the same with uniform spacing <= max_gap.
C9_AsStated ==
    CallReturned("find_reference_line") =>
        \A step \in Steps(call.icon_centers) :
            ( /\ Len(call.icon_centers) >= ref_line_min_icons
              /\ OnUniformLine(call.icon_centers, step)
              /\ NormSq(step) <= ref_line_max_gap * ref_line_max_gap )
            => FullChainTrueSlope(step)

\* four centres of a column 30 px apart, given out of order, all chained
C9_Witness ==
    /\ CallReturned("find_reference_line")
    /\ call.icon_centers = << <<0, 90>>, <<0, 0>>, <<0, 60>>, <<0, 30>> >>
    /\ Len(ret.chain) = 4
    /\ ret.line[1] = "vertical"

\* three centres of a column exactly max_gap apart: no line at all
C9_SpacingEqualMaxGap ==
    /\ CallReturned("find_reference_line")
    /\ call.icon_centers = << <<0, 0>>, <<0, 60>>, <<0, 120>> >>
    /\ ret.line = Nil

(***************************************************************************)
(* Properties of distance_to_segment                                       *)
(***************************************************************************)
DistanceBy(impl, point, a, b) ==
    IF impl = "layout_analysis" THEN distance_to_segment(point, a, b)
    ELSE utils_distance_to_segment(point, a, b)

SameDistance(impl, r1, r2) ==
    IF impl = "layout_analysis" THEN r1 = r2 ELSE SameUtilsDistance(r1, r2)

\* the squared Euclidean distance between two points, as impl returns it
PointDistance(impl, p, q) ==
    IF impl = "layout_analysis" THEN <<NormSq(Sub(p, q)), 1>>
    ELSE <<BigOfNat(NormSq(Sub(p, q))), 1>>

SegmentDistanceLaws(impl) ==
    LET ab == Sub(call.b, call.a)
        ap == Sub(call.point, call.a)
    IN /\ SameDistance(impl, ret.value, DistanceBy(impl, call.point, call.b, call.a))
       /\ (call.a # call.b /\ Dot(ap, ab) < 0)
              => SameDistance(impl, ret.value, PointDistance(impl, call.point, call.a))
       /\ (call.a # call.b /\ Dot(ap, ab) > Dot(ab, ab))
              => SameDistance(impl, ret.value, PointDistance(impl, call.point, call.b))
       /\ call.a = call.b
              => SameDistance(impl, ret.value, PointDistance(impl, call.point, call.a))
       /\ (call.point = <<0, 10>> /\ call.a = <<0, 0>> /\ call.b = <<0, 5>>)
              => SameDistance(impl, ret.value, PointDistance(impl, <<0, 5>>, <<0, 0>>))

\* C10: distance_to_segment(p, (a, b)) equals distance_to_segment(p, (b, a))
\* for all points and segments; when the projection of p falls outside the
\* segment it is exactly the distance to the nearer end point ((0,10) and
\* (0,0)-(0,5) give 5.0); for a zero-length segment it is the distance to a.
\* Stated of both functions of that name.
C10_SegmentDistance ==
    CallReturned("distance_to_segment") => SegmentDistanceLaws(ret.impl)

\* the same of layout_analysis.distance_to_segment alone
C10_LayoutAnalysisOnly ==
    (CallReturned("distance_to_segment") /\ ret.impl = "layout_analysis")
        => SegmentDistanceLaws("layout_analysis")

\* detection/utils.py: p = (1, 0) against (0,0)-(3,0) and against (3,0)-(0,0)
C10_UtilsNotSymmetric ==
    /\ CallReturned("distance_to_segment")
    /\ ret.impl = "detection.utils"
    /\ call.point = <<1, 0>> /\ call.a = <<0, 0>> /\ call.b = <<3, 0>>
    /\ ~SameUtilsDistance(ret.value, utils_distance_to_segment(<<1, 0>>, <<3, 0>>, <<0, 0>>))


(***************************************************************************)
(* More properties of find_reference_line                                  *)
(***************************************************************************)
\* the point lies inside [0, width] x [0, height] of shape = <<height, width>>
InsideImage(p, shape) ==
    /\ p[1] >= 0 /\ p[1] <= shape[2]
    /\ p[2] >= 0 /\ p[2] <= shape[1]

\* C11: whenever find_reference_line returns a line, both of its end points
\* lie inside [0, width] x [0, height] of the image, whatever the chain and
\* the fitted slope and intercept.
C11_LineEndsInsideImage ==
    (pc = "returned" /\ ret.line # Nil) =>
        /\ InsideImage(ret.line[2], call.shape)
        /\ InsideImage(ret.line[3], call.shape)

\* a falling diagonal y = 60 - x: its value at x = width, -240, comes back as 0
C11_Witness ==
    /\ CallReturned("find_reference_line")
    /\ call.icon_centers = << <<0, 60>>, <<30, 30>>, <<60, 0>> >>
    /\ FitValueAt(ret.chain, 1, 2, call.shape[2]) = <<-240, 1>>
    /\ ret.line = <<"horizontal", <<0, 60>>, <<300, 0>>>>

\* the same centers handed to GridProcessor: int(-240) is clipped to 0
C11_WitnessGrid ==
    /\ CallReturned("GridProcessor.find_reference_line")
    /\ call.icon_centers = << <<0, 60>>, <<30, 30>>, <<60, 0>> >>
    /\ ret.line = <<"horizontal", <<0, 60>>, <<300, 0>>>>

(***************************************************************************)
(* Properties of try_orientation                                           *)
(***************************************************************************)
InLoop == pc \in {"extend", "score"}

InGridLoop == pc \in {"grid_while", "grid_score"}

\* the stepwise runs return what the functions compute in one go
StepwiseSameAsTryOrientation ==
    /\ CallReturned("try_orientation") =>
           ret.best_line_points =
               try_orientation(call.centers_list, call.orientation, ref_line_min_icons)
    /\ CallReturned("GridProcessor.try_orientation") =>
           ret.best_line_points =
               GridProcessor_try_orientation(call.centers_list, call.orientation,
                                             ref_line_min_icons)

\* one turn of the chain-extension loop of layout_analysis: it leaves the loop
\* with the chain as it was, or appends a center that was not used yet and
\* lies strictly forward
AppendsUnusedForwardOrStops ==
    pc = "extend" =>
        \/ pc' = "score" /\ frame' = frame
        \/ /\ pc' = "extend"
           /\ \E idx \in (1..Len(frame.centers_sorted)) \ frame.used_indices :
                  /\ frame'.current_line =
                         Append(frame.current_line, frame.centers_sorted[idx])
                  /\ frame'.used_indices = frame.used_indices \cup {idx}
                  /\ PrimaryCoord(frame.centers_sorted[idx], call.orientation) >
                         PrimaryCoord(frame.current_line[Len(frame.current_line)],
                                      call.orientation)

\* the same for the loop of GridProcessor, whose remaining_centers are the
\* centers not yet in the chain
GridAppendsRemainingForwardOrStops ==
    pc = "grid_while" =>
        \/ pc' = "grid_score" /\ frame' = frame
        \/ /\ pc' = "grid_while"
           /\ \E i \in DOMAIN frame.remaining_centers :
                  /\ frame'.current_line =
                         Append(frame.current_line, frame.remaining_centers[i])
                  /\ frame.remaining_centers[i] \notin Range(frame.current_line)
                  /\ Len(frame'.remaining_centers) < Len(frame.remaining_centers)
                  /\ PrimaryCoord(frame.remaining_centers[i], call.orientation) >
                         PrimaryCoord(frame.current_line[Len(frame.current_line)],
                                      call.orientation)

\* C12: every chain-extension loop terminates for any finite list of centers:
\* each turn either appends a center not yet in the chain and strictly forward
\* along the primary axis, or stops, so a chain never has more points than
\* there are centers and the loop is left.
C12_ChainLoopTerminates ==
    /\ [][AppendsUnusedForwardOrStops /\ GridAppendsRemainingForwardOrStops]_vars
    /\ []((InLoop \/ InGridLoop) => Len(frame.current_line) <= Len(call.centers_list))
    /\ (pc = "extend") ~> (pc = "score")
    /\ (pc = "grid_while") ~> (pc = "grid_score")

\* calls that went through all four centers in one chain and left the loop
C12_Witness ==
    /\ pc = "score"
    /\ call.fn = "try_orientation"
    /\ Len(call.centers_list) = MaxChainCenters
    /\ Len(frame.current_line) = MaxChainCenters

C12_WitnessGrid ==
    /\ pc = "grid_score"
    /\ Len(call.centers_list) = MaxChainCenters
    /\ Len(frame.current_line) = MaxChainCenters

(***************************************************************************)
(* Properties of the order of the two orientations                         *)
(***************************************************************************)
LineCallReturned ==
    /\ pc = "returned"
    /\ call.fn \in {"find_reference_line", "GridProcessor.find_reference_line"}

\* the averages of the gaps between consecutive sorted x and y coordinates;
\* their order is that of sum_x * count_y and sum_y * count_x
AvgXGapBelowAvgYGap ==
    compute_avg_spacing(call.icon_centers, 1)[1] * compute_avg_spacing(call.icon_centers, 2)[2]
        < compute_avg_spacing(call.icon_centers, 2)[1] * compute_avg_spacing(call.icon_centers, 1)[2]

AvgGapsEqual ==
    compute_avg_spacing(call.icon_centers, 1)[1] * compute_avg_spacing(call.icon_centers, 2)[2]
        = compute_avg_spacing(call.icon_centers, 2)[1] * compute_avg_spacing(call.icon_centers, 1)[2]

\* C14 (amended): find_reference_line tries first the orientation with the
\* smaller average spacing, vertical when the average x-gap is smaller than
\* the average y-gap; when the two averages are equal, horizontal is tried
\* first.
C14_SmallerSpacingFirstTiesHorizontal ==
    (LineCallReturned /\ ret.tried # <<>>) =>
        ret.tried[1] = IF AvgXGapBelowAvgYGap THEN "vertical" ELSE "horizontal"

\* C14 as stated: when the two averages are equal, vertical is tried first.
C14_AsStated ==
    (LineCallReturned /\ ret.tried # <<>>) =>
        ret.tried[1] = IF AvgXGapBelowAvgYGap \/ AvgGapsEqual THEN "vertical"
                       ELSE "horizontal"

\* a diagonal, 30 px between neighbours along both axes: horizontal comes first
C14_Witness ==
    /\ CallReturned("find_reference_line")
    /\ call.icon_centers = << <<0, 0>>, <<30, 30>>, <<60, 60>> >>
    /\ AvgGapsEqual
    /\ ret.tried = <<"horizontal">>

C14_WitnessGrid ==
    /\ CallReturned("GridProcessor.find_reference_line")
    /\ call.icon_centers = << <<0, 0>>, <<30, 30>>, <<60, 60>> >>
    /\ ret.tried = <<"horizontal">>

(***************************************************************************)
(* Properties of the chain built by try_orientation (layout_analysis.py)   *)
(***************************************************************************)
LastOf(line) == line[Len(line)]

\* an unused center that may follow the chain: strictly forward, closer than
\* max_gap to the last point and, from the third point on, turning by at most
\* max_angle
SuitableNext(idx) ==
    /\ idx \notin frame.used_indices
    /\ PrimaryCoord(frame.centers_sorted[idx], call.orientation)
           > PrimaryCoord(LastOf(frame.current_line), call.orientation)
    /\ NormSq(Sub(frame.centers_sorted[idx], LastOf(frame.current_line)))
           < ref_line_max_gap * ref_line_max_gap
    /\ Len(frame.current_line) >= 2 =>
           AngleWithinMax(Sub(LastOf(frame.current_line),
                              frame.current_line[Len(frame.current_line) - 1]),
                          Sub(frame.centers_sorted[idx], LastOf(frame.current_line)))

\* p is at least as good a next point as c: nearer to the last point, or as
\* near and turning no more (at equal length the larger dot product with the
\* direction of the chain is the smaller angle)
NearerOrStraighter(p, c) ==
    \/ NormSq(Sub(p, LastOf(frame.current_line))) < NormSq(Sub(c, LastOf(frame.current_line)))
    \/ /\ NormSq(Sub(p, LastOf(frame.current_line))) = NormSq(Sub(c, LastOf(frame.current_line)))
       /\ Len(frame.current_line) >= 2 =>
              Dot(Sub(LastOf(frame.current_line), frame.current_line[Len(frame.current_line) - 1]),
                  Sub(p, LastOf(frame.current_line)))
              >= Dot(Sub(LastOf(frame.current_line), frame.current_line[Len(frame.current_line) - 1]),
                     Sub(c, LastOf(frame.current_line)))

\* C15: when it extends a chain, find_reference_line appends, among the
\* suitable next points, the one nearest (Euclidean distance) to the last
\* point of the chain, ties broken by the smallest turning angle.
C15_AppendsNearestSuitable ==
    [][(pc = "extend" /\ pc' = "extend") =>
           \A idx \in 1..Len(frame.centers_sorted) :
               SuitableNext(idx) =>
                   NearerOrStraighter(LastOf(frame'.current_line), frame.centers_sorted[idx])]_vars

\* from (0, 15) the chain went on to (30, 20), the first suitable center in
\* sorted order, although (0, 30) is nearer
C15_FartherPointAppended ==
    /\ pc = "extend"
    /\ call.orientation = "vertical"
    /\ call.centers_list = << <<0, 30>>, <<0, 15>>, <<30, 20>> >>
    /\ frame.current_line = << <<0, 15>>, <<30, 20>> >>

\* the conditions on a chain: strictly increasing primary coordinate, every
\* link shorter than max_gap, every turn within max_angle
WellFormedChain(line, orientation) ==
    /\ \A i \in 2..Len(line) :
           /\ PrimaryCoord(line[i], orientation) > PrimaryCoord(line[i - 1], orientation)
           /\ NormSq(Sub(line[i], line[i - 1])) < ref_line_max_gap * ref_line_max_gap
    /\ \A i \in 3..Len(line) :
           AngleWithinMax(Sub(line[i - 1], line[i - 2]), Sub(line[i], line[i - 1]))

\* every point of the chain is the center at one used index, and no index
\* stands for two points
EachCenterOnce(line, centers_sorted, used_indices) ==
    /\ Cardinality(used_indices) = Len(line)
    /\ \A i \in DOMAIN line : \E idx \in used_indices : centers_sorted[idx] = line[i]
    /\ \A i, j \in DOMAIN line : i # j => line[i] # line[j]

\* C16: a chain, at every step of its construction, uses no center twice, has
\* a strictly increasing primary-axis coordinate, has consecutive points
\* strictly closer than max_gap and, from the third point on, turns by at most
\* max_angle between successive steps; it is returned only if it has at least
\* min_icons points.
C16_ChainInvariants ==
    /\ InLoop =>
           /\ WellFormedChain(frame.current_line, call.orientation)
           /\ EachCenterOnce(frame.current_line, frame.centers_sorted, frame.used_indices)
    /\ (CallReturned("try_orientation") /\ ret.best_line_points # Nil) =>
           /\ Len(ret.best_line_points) >= ref_line_min_icons
           /\ WellFormedChain(ret.best_line_points, call.orientation)

\* a returned chain of four points that turns once: (0, 15) -> (0, 30) goes
\* straight up, (0, 30) -> (10, 60) turns by 18.4 degrees
C16_Witness ==
    /\ CallReturned("try_orientation")
    /\ ret.best_line_points = << <<0, 0>>, <<0, 15>>, <<0, 30>>, <<10, 60>> >>

(***************************************************************************)
(* Properties of the primary and the secondary attempt                     *)
(***************************************************************************)
\* what try_orientation gives for the call's centers in one orientation
ChainIn(orientation) ==
    try_orientation(call.icon_centers, orientation, ref_line_min_icons)

OtherOrientation(orientation) ==
    IF orientation = "vertical" THEN "horizontal" ELSE "vertical"

\* C17: the secondary orientation is attempted if and only if the primary
\* orientation yields no chain of at least min_icons points (then the result
\* comes from the chain of the one that gave one); if both orientations fail,
\* find_reference_line returns None.
C17_SecondaryIffPrimaryFails ==
    (CallReturned("find_reference_line") /\ ret.tried # <<>>) =>
        /\ Len(ret.tried) = IF ChainIn(ret.tried[1]) = Nil THEN 2 ELSE 1
        /\ Len(ret.tried) = 2 => ret.tried[2] = OtherOrientation(ret.tried[1])
        /\ ChainIn(ret.tried[1]) # Nil =>
               /\ Len(ChainIn(ret.tried[1])) >= ref_line_min_icons
               /\ ret.chain = ChainIn(ret.tried[1])
        /\ ChainIn(ret.tried[1]) = Nil =>
               ret.chain = ChainIn(OtherOrientation(ret.tried[1]))
        /\ (ChainIn("vertical") = Nil /\ ChainIn("horizontal") = Nil) <=> ret.line = Nil

\* a column 15 px apart and a far point: both average gaps are 20, horizontal
\* comes first and links nothing, vertical then gives the column
C17_Witness ==
    /\ CallReturned("find_reference_line")
    /\ call.icon_centers = << <<0, 0>>, <<0, 15>>, <<0, 30>>, <<60, 60>> >>
    /\ ret.tried = <<"horizontal", "vertical">>
    /\ ret.chain = << <<0, 0>>, <<0, 15>>, <<0, 30>> >>
    /\ ret.line[1] = "vertical"

\* both orientations tried, no line
C17_WitnessBothFail ==
    /\ CallReturned("find_reference_line")
    /\ Len(ret.tried) = 2
    /\ ret.line = Nil

(***************************************************************************)
(* Properties of the end of the search ray                                 *)
(***************************************************************************)
\* the axis the ray runs along: x (1) for a vertical reference line, y (2)
\* for a horizontal one
RayAxis == IF call.orientation = "vertical" THEN 1 ELSE 2

AcrossAxis == IF call.orientation = "vertical" THEN 2 ELSE 1

ImageSizeAlong(axis) == IF axis = 1 THEN call.shape[2] ELSE call.shape[1]

\* the padded range of a box along an axis
PaddedLow(b, axis) == (IF axis = 1 THEN b.x ELSE b.y) - search_line_tolerance

PaddedHigh(b, axis) ==
    (IF axis = 1 THEN b.x + b.w ELSE b.y + b.h) + search_line_tolerance

CenterInsideImage ==
    /\ call.center[1] >= 0 /\ call.center[1] <= call.shape[2]
    /\ call.center[2] >= 0 /\ call.center[2] <= call.shape[1]

\* the near edges of the boxes that lie across the ray: the padded range
\* across the ray contains the origin's coordinate, the padded near edge is at
\* or beyond the origin
RayStops ==
    {PaddedLow(call.boxes[i], RayAxis) :
        i \in {j \in DOMAIN call.boxes :
                  /\ PaddedLow(call.boxes[j], AcrossAxis) <= call.center[AcrossAxis]
                  /\ call.center[AcrossAxis] <= PaddedHigh(call.boxes[j], AcrossAxis)
                  /\ PaddedLow(call.boxes[j], RayAxis) >= call.center[RayAxis]}}

\* the ray starts at the center, stays on its row (column) and ends at the
\* smallest stop or at the image edge
RayEndsAtFirstStop ==
    /\ ret[2] = call.center
    /\ ret[3][AcrossAxis] = call.center[AcrossAxis]
    /\ ret[3][RayAxis] = SetMin(RayStops \cup {ImageSizeAlong(RayAxis)})

OwnBox(b) ==
    /\ b.x + (b.w \div 2) = call.center[1]
    /\ b.y + (b.h \div 2) = call.center[2]

\* the padded rectangle of b contains the origin of the ray
ContainsOrigin(b) ==
    /\ PaddedLow(b, 1) <= call.center[1] /\ call.center[1] <= PaddedHigh(b, 1)
    /\ PaddedLow(b, 2) <= call.center[2] /\ call.center[2] <= PaddedHigh(b, 2)

\* the ray is what it would be without the box at index i
SameWithoutBox(i) ==
    ret = create_search_line(call.center, <<call.orientation, <<0, 0>>, <<0, 0>>>>,
                             DeleteAt(call.boxes, i), call.shape[2], call.shape[1],
                             search_line_tolerance)

\* C18 (amended): for a center (sx, sy) inside the image the ray ends at
\* min(image size, smallest padded near edge over the boxes whose padded range
\* across the ray contains the center and whose padded near edge is at or
\* beyond the center); the owner's own box, and any box whose padded rectangle
\* contains the origin with its padded near edge strictly before the origin,
\* never shortens the ray.
C18_RayEndsAtFirstPaddedEdge ==
    (CallReturned("create_search_line") /\ CenterInsideImage) =>
        /\ RayEndsAtFirstStop
        /\ \A i \in DOMAIN call.boxes :
               ( \/ OwnBox(call.boxes[i])
                 \/ /\ ContainsOrigin(call.boxes[i])
                    /\ PaddedLow(call.boxes[i], RayAxis) < call.center[RayAxis] )
               => SameWithoutBox(i)

\* C18 as stated: any box whose padded rectangle contains the origin never
\* shortens the ray.
C18_AsStated ==
    (CallReturned("create_search_line") /\ CenterInsideImage) =>
        /\ RayEndsAtFirstStop
        /\ \A i \in DOMAIN call.boxes :
               (OwnBox(call.boxes[i]) \/ ContainsOrigin(call.boxes[i]))
               => SameWithoutBox(i)

\* a ray downward from the center of its own box, stopped at the padded top
\* edge (y = 25) of the box below instead of the image edge (y = 40)
C18_Witness ==
    /\ CallReturned("create_search_line")
    /\ call.center = <<10, 10>>
    /\ call.orientation = "horizontal"
    /\ call.boxes = << [x |-> 5, y |-> 5, w |-> 10, h |-> 10],
                       [x |-> 5, y |-> 30, w |-> 10, h |-> 5] >>
    /\ ret = <<"horizontal", <<10, 10>>, <<10, 25>>>>

\* the origin (0, 10) lies on the padded left edge of the box: the ray ends
\* where it starts, and runs to the image edge without the box
C18_OriginOnPaddedEdge ==
    /\ CallReturned("create_search_line")
    /\ call.center = <<0, 10>>
    /\ call.orientation = "vertical"
    /\ call.boxes = << [x |-> 5, y |-> 5, w |-> 10, h |-> 10] >>
    /\ ContainsOrigin(call.boxes[1])
    /\ ret = <<"vertical", <<0, 10>>, <<0, 10>>>>

(***************************************************************************)
(* Properties of the matches of phase 1 and phase 2                        *)
(***************************************************************************)
\* squared distance of the centroid of det from the search ray at index i
RayDistance(det, i) ==
    distance_to_segment(get_centroid(det),
                        Double(icon_search_lines[i].search_line[2]),
                        Double(icon_search_lines[i].search_line[3]))

\* the indices of the rays of the icons in eligible
EligibleRays(eligible) ==
    {i \in DOMAIN icon_search_lines : Key(icon_search_lines[i].icon) \in eligible}

\* the ray nearest to det among the eligible ones, the first in input order
\* when several are equally near (a set of at most one index)
NearestRay(det, eligible) ==
    {i \in EligibleRays(eligible) :
        \A j \in EligibleRays(eligible) :
            /\ ~FracLess(RayDistance(det, j), RayDistance(det, i))
            /\ j < i => FracLess(RayDistance(det, i), RayDistance(det, j))}

\* det is matched to icon_key as the claim describes
NearestWithin(det, icon_key, eligible, pixels) ==
    \E i \in NearestRay(det, eligible) :
        /\ Key(icon_search_lines[i].icon) = icon_key
        /\ FracLess(RayDistance(det, i), ThresholdSq(pixels))

\* C19: a usage is only ever matched to the icon whose search ray is nearest
\* to its centroid (the first such icon in input order among equally near
\* rays), and only at a distance strictly below 200; a usage with no ray
\* strictly within 200 is never matched.
C19_UsageMatchedToNearestRayBelowThreshold ==
    /\ \A e \in DOMAIN usage_matches :
           \E u \in DOMAIN app_usages :
               /\ Key(app_usages[u]) = usage_matches[e][1]
               /\ NearestWithin(app_usages[u], usage_matches[e][2], KeysOf(app_icons), 200)
    /\ \A m \in DOMAIN matched_data :
           matched_data[m].app_icon # None =>
               NearestWithin(matched_data[m].app_usage, Key(matched_data[m].app_icon),
                             KeysOf(app_icons), 200)
    /\ \A u \in DOMAIN app_usages :
           (\A i \in DOMAIN icon_search_lines :
                ~FracLess(RayDistance(app_usages[u], i), ThresholdSq(200)))
           => /\ ~DictHas(usage_matches, Key(app_usages[u]))
              /\ \A m \in DOMAIN matched_data :
                     matched_data[m].app_icon # None =>
                         matched_data[m].app_usage # app_usages[u]

\* the usage at (5, 25), equally near the rays y = 50 and y = 0, is matched to
\* the icon at y = 50, the first of the two in input order; the usage at
\* (5, 300), exactly 200 from the ray y = 100, is left unmatched
C19_Witness ==
    /\ pc = "done"
    /\ detections = <<Icon(0, 100, 1, 1), Icon(0, 50, 1, 1), Icon(0, 0, 1, 1),
                      Usage(0, 20, 10, 10), Usage(0, 295, 10, 10)>>
    /\ RayDistance(Usage(0, 20, 10, 10), 2) = RayDistance(Usage(0, 20, 10, 10), 3)
    /\ RayDistance(Usage(0, 295, 10, 10), 1) = ThresholdSq(200)
    /\ usage_matches = << <<Key(Usage(0, 20, 10, 10)), Key(Icon(0, 50, 1, 1))>> >>
    /\ debug_info.unmatched_app_usages = <<Usage(0, 295, 10, 10)>>

\* the box det, about to be processed, targets the icon that entry e of matches
\* gives to an earlier, different box, at the distance recorded for that box
TiesWithClaim(det, matches, min_distances, e, eligible, pixels) ==
    /\ matches[e][1] # Key(det)
    /\ NearestWithin(det, matches[e][2], eligible, pixels)
    /\ \E i \in NearestRay(det, eligible) :
           DictGet(min_distances, matches[e][1]) = RayDistance(det, i)

Phase1Tie(e) ==
    /\ pc = "phase1"
    /\ loop_i <= Len(app_usages)
    /\ TiesWithClaim(app_usages[loop_i], usage_matches, min_distances_usage, e,
                     KeysOf(app_icons), 200)

Phase2Tie(e) ==
    /\ pc = "phase2"
    /\ loop_i <= Len(app_names)
    /\ TiesWithClaim(app_names[loop_i], name_matches, min_distances_name, e,
                     icons_matched_to_usage, 120)

\* C13 (amended): when a later box (usage in phase 1, name in phase 2) targets
\* an icon already claimed by an earlier box and both are at equal distance
\* from that icon's search ray, the later box takes the claim and the earlier
\* box is released from it.
C13_LaterBoxTakesClaimOnTie ==
    [][ /\ \A e \in DOMAIN usage_matches :
              Phase1Tie(e) =>
                  /\ DictHas(usage_matches', Key(app_usages[loop_i]))
                  /\ DictGet(usage_matches', Key(app_usages[loop_i])) = usage_matches[e][2]
                  /\ ~DictHas(usage_matches', usage_matches[e][1])
        /\ \A e \in DOMAIN name_matches :
              Phase2Tie(e) =>
                  /\ DictHas(name_matches', Key(app_names[loop_i]))
                  /\ DictGet(name_matches', Key(app_names[loop_i])) = name_matches[e][2]
                  /\ ~DictHas(name_matches', name_matches[e][1]) ]_vars

\* C13 as stated: on equal distance the earlier box keeps the claim and the
\* later box is left unmatched.
C13_AsStated ==
    [][ /\ \A e \in DOMAIN usage_matches :
              Phase1Tie(e) =>
                  /\ DictHas(usage_matches', usage_matches[e][1])
                  /\ DictGet(usage_matches', usage_matches[e][1]) = usage_matches[e][2]
                  /\ ~DictHas(usage_matches', Key(app_usages[loop_i]))
        /\ \A e \in DOMAIN name_matches :
              Phase2Tie(e) =>
                  /\ DictHas(name_matches', name_matches[e][1])
                  /\ DictGet(name_matches', name_matches[e][1]) = name_matches[e][2]
                  /\ ~DictHas(name_matches', Key(app_names[loop_i])) ]_vars

\* the usages at (5, 120) and (5, 80) are both 20 from the ray y = 100 and the
\* names at (8, 98) and (8, 102) both 2: the later usage and the later name
\* hold the icon, the earlier ones are returned unmatched
C13_Witness ==
    /\ pc = "done"
    /\ detections = <<Icon(0, 0, 1, 1), Icon(0, 50, 1, 1), Icon(0, 100, 1, 1),
                      Usage(0, 115, 10, 10), Usage(0, 75, 10, 10),
                      Name(0, 90, 16, 16), Name(0, 94, 16, 16)>>
    /\ RayDistance(Usage(0, 115, 10, 10), 3) = RayDistance(Usage(0, 75, 10, 10), 3)
    /\ RayDistance(Name(0, 90, 16, 16), 3) = RayDistance(Name(0, 94, 16, 16), 3)
    /\ matched_data = <<[app_usage |-> Usage(0, 75, 10, 10),
                         app_icon |-> Icon(0, 100, 1, 1),
                         app_name |-> Name(0, 94, 16, 16)]>>
    /\ debug_info.unmatched_app_usages = <<Usage(0, 115, 10, 10)>>
    /\ debug_info.unmatched_app_names = <<Name(0, 90, 16, 16)>>

\* the icons claimed by a usage in phase 1
ClaimedByUsage == {usage_matches[i][2] : i \in DOMAIN usage_matches}

\* the centroid of det is strictly within pixels of a search ray of icon_key
WithinOfRay(det, icon_key, pixels) ==
    \E i \in DOMAIN icon_search_lines :
        /\ Key(icon_search_lines[i].icon) = icon_key
        /\ FracLess(RayDistance(det, i), ThresholdSq(pixels))

\* C20: with search rays, a name is attached only to an icon claimed by a
\* usage in phase 1 and only if its centroid is strictly within 120 of that
\* icon's search ray; each such icon receives at most one name, and an icon
\* not claimed by a usage receives none.
C20_NameOnlyOnClaimedIconWithinThreshold ==
    icon_search_lines # <<>> =>
        /\ \A e \in DOMAIN name_matches :
               /\ name_matches[e][2] \in ClaimedByUsage
               /\ \E n \in DOMAIN app_names :
                      /\ Key(app_names[n]) = name_matches[e][1]
                      /\ WithinOfRay(app_names[n], name_matches[e][2], 120)
        /\ \A m \in DOMAIN matched_data :
               matched_data[m].app_name # None =>
                   /\ matched_data[m].app_icon # None
                   /\ Key(matched_data[m].app_icon) \in ClaimedByUsage
                   /\ WithinOfRay(matched_data[m].app_name,
                                  Key(matched_data[m].app_icon), 120)
                   /\ \A o \in DOMAIN matched_data :
                          ( /\ o # m
                            /\ matched_data[o].app_name # None
                            /\ matched_data[o].app_icon # None )
                          => Key(matched_data[o].app_icon) # Key(matched_data[m].app_icon)

\* only the icon at y = 100 is claimed by a usage: the name at (8, 8), 8 from
\* the unclaimed ray y = 0 and 92 from the ray y = 100, is attached to the icon
\* at y = 100; the name at (8, 220), exactly 120 from that ray, is not attached
C20_Witness ==
    /\ pc = "done"
    /\ detections = <<Icon(0, 0, 1, 1), Icon(0, 50, 1, 1), Icon(0, 100, 1, 1),
                      Usage(0, 115, 10, 10),
                      Name(0, 0, 16, 16), Name(0, 212, 16, 16)>>
    /\ RayDistance(Name(0, 212, 16, 16), 3) = ThresholdSq(120)
    /\ matched_data = <<[app_usage |-> Usage(0, 115, 10, 10),
                         app_icon |-> Icon(0, 100, 1, 1),
                         app_name |-> Name(0, 0, 16, 16)]>>
    /\ debug_info.unmatched_app_names = <<Name(0, 212, 16, 16)>>
    /\ debug_info.unmatched_app_icons = <<Icon(0, 0, 1, 1), Icon(0, 50, 1, 1)>>

(***************************************************************************)
(* Properties of the fallback                                              *)
(***************************************************************************)
\* the names that no usage holds at a strictly smaller distance than det's
AvailableNames(det) ==
    {i \in DOMAIN app_names :
        ~\E j \in DOMAIN usage_to_name_map :
            /\ usage_to_name_map[j][2] = Key(app_names[i])
            /\ DictHas(min_usage_name_dist, usage_to_name_map[j][1])
            /\ DictGet(min_usage_name_dist, usage_to_name_map[j][1])
                   < CentroidDistSq(det, app_names[i])}

\* the nearest of the names in among, the first in input order when several
\* are equally near (a set of at most one index)
NearestNameAmong(det, among) ==
    {i \in among :
        \A j \in among :
            /\ CentroidDistSq(det, app_names[i]) <= CentroidDistSq(det, app_names[j])
            /\ j < i => CentroidDistSq(det, app_names[j]) > CentroidDistSq(det, app_names[i])}

\* every record of the fallback pairs an entry of usage_to_name_map, without icon
FallbackRecordsFromMap ==
    (pc \in {"finish", "done"} /\ icon_search_lines = <<>>) =>
        \A m \in DOMAIN matched_data :
            /\ matched_data[m].app_icon = None
            /\ matched_data[m].app_usage # None
            /\ matched_data[m].app_name # None
            /\ DictHas(usage_to_name_map, Key(matched_data[m].app_usage))
            /\ DictGet(usage_to_name_map, Key(matched_data[m].app_usage))
                   = Key(matched_data[m].app_name)

\* C21 (amended): on the fallback path every record has icon = None and pairs
\* a usage with the name that was, when the usage was processed, nearest to its
\* centroid (smallest squared distance, no threshold) among the names not held
\* by a usage at a strictly smaller distance.
C21_FallbackPairsNearestAvailableName ==
    [][ /\ (pc = "fallback" /\ loop_i <= Len(app_usages)) =>
              /\ \A i \in NearestNameAmong(app_usages[loop_i],
                                            AvailableNames(app_usages[loop_i])) :
                     /\ DictHas(usage_to_name_map', Key(app_usages[loop_i]))
                     /\ DictGet(usage_to_name_map', Key(app_usages[loop_i]))
                            = Key(app_names[i])
                     /\ DictGet(min_usage_name_dist', Key(app_usages[loop_i]))
                            = CentroidDistSq(app_usages[loop_i], app_names[i])
              /\ AvailableNames(app_usages[loop_i]) = {} =>
                     usage_to_name_map' = usage_to_name_map
        /\ FallbackRecordsFromMap' ]_vars

\* C21 as stated: every record of the fallback has icon = None and pairs a
\* usage with the name nearest to its centroid.
C21_AsStated ==
    (pc = "done" /\ icon_search_lines = <<>>) =>
        \A m \in DOMAIN matched_data :
            /\ matched_data[m].app_icon = None
            /\ \A n \in DOMAIN app_names :
                   CentroidDistSq(matched_data[m].app_usage, matched_data[m].app_name)
                       <= CentroidDistSq(matched_data[m].app_usage, app_names[n])

\* both usages are nearest to the name at (8, 110); the first, at (5, 105),
\* holds it at a smaller distance and the second, at (5, 120), is paired with
\* the name at (8, 98)
C21_Witness ==
    /\ pc = "done"
    /\ detections = <<Usage(0, 100, 10, 10), Usage(0, 115, 10, 10),
                      Name(0, 90, 16, 16), Name(0, 102, 16, 16)>>
    /\ CentroidDistSq(Usage(0, 115, 10, 10), Name(0, 102, 16, 16))
           < CentroidDistSq(Usage(0, 115, 10, 10), Name(0, 90, 16, 16))
    /\ matched_data = <<[app_usage |-> Usage(0, 100, 10, 10), app_icon |-> None,
                         app_name |-> Name(0, 102, 16, 16)],
                        [app_usage |-> Usage(0, 115, 10, 10), app_icon |-> None,
                         app_name |-> Name(0, 90, 16, 16)]>>

(***************************************************************************)
(* Properties of detect_grid                                               *)
(***************************************************************************)
\* the y coordinates of the centers of the call, ascending
SortedYs == [i \in DOMAIN call.icon_centers |-> SortByAxis(call.icon_centers, 2)[i][2]]

\* the sizes of the groups of consecutive ys, a group ending before each gap
\* that strictly exceeds 50; sizes holds the groups up to ys[i - 1]
RECURSIVE RowSizesFrom(_, _, _)
RowSizesFrom(ys, i, sizes) ==
    IF i > Len(ys) THEN sizes
    ELSE IF ys[i] - ys[i - 1] > 50
         THEN RowSizesFrom(ys, i + 1, Append(sizes, 1))
         ELSE RowSizesFrom(ys, i + 1, [sizes EXCEPT ![Len(sizes)] = @ + 1])

DetectGridReturned ==
    pc = "returned" /\ call.fn \in {"detect_grid", "GridProcessor.detect_grid"}

\* C22: detect_grid returns (0, 0) for fewer than 2 centers; otherwise rows is
\* 1 + the number of consecutive pairs of y-sorted centers whose gap strictly
\* exceeds 50 and cols the size of the largest group between breaks, so that
\* rows >= 1, cols >= 1 and the row sizes sum to the number of centers.
C22_DetectGridRowsAndCols ==
    DetectGridReturned =>
        IF Len(call.icon_centers) < 2 THEN ret.grid = <<0, 0>>
        ELSE \E sizes \in {RowSizesFrom(SortedYs, 2, <<1>>)} :
                 /\ ret.grid[1] =
                        1 + Cardinality({i \in 2..Len(SortedYs) :
                                            SortedYs[i] - SortedYs[i - 1] > 50})
                 /\ ret.grid[1] = Len(sizes)
                 /\ ret.grid[2] = SetMax(Range(sizes))
                 /\ ret.grid[1] >= 1
                 /\ ret.grid[2] >= 1
                 /\ SumSeq(sizes) = Len(call.icon_centers)

\* gaps of 50, 1 and 109: (0, 0), (7, 50), (0, 51) form one row and (0, 160)
\* the other
C22_Witness ==
    /\ CallReturned("detect_grid")
    /\ call.icon_centers = << <<0, 160>>, <<0, 51>>, <<0, 0>>, <<7, 50>> >>
    /\ ret.grid = <<2, 3>>

C22_WitnessGrid ==
    /\ CallReturned("GridProcessor.detect_grid")
    /\ call.icon_centers = << <<0, 0>>, <<0, 51>>, <<3, 101>> >>
    /\ ret.grid = <<2, 2>>

(***************************************************************************)
(* Properties of AppMatcher.match_app_components                           *)
(***************************************************************************)
MatcherIcons == SelectLabel(call.detections, "app_icon")

\* the number of records of data that hold the name box n
RecordsWithName(data, n) == Cardinality({m \in DOMAIN data : data[m].app_name = n})

\* the number of detections equal to the box d
Occurrences(d) == Cardinality({i \in DOMAIN call.detections : call.detections[i] = d})

\* C23: match_app_components never fails with an exception; when two usages
\* have the same nearest name on the fallback path, or two matched icons the
\* same nearest name within 120, it still returns matched_data and the
\* unmatched lists, with each name box in at most one record.
C23_NoExceptionEachNameOnce ==
    /\ pc # "raised"
    /\ pc = "returned" =>
           \A m \in DOMAIN ret.matched_data :
               ret.matched_data[m].app_name # None =>
                   RecordsWithName(ret.matched_data, ret.matched_data[m].app_name)
                       <= Occurrences(ret.matched_data[m].app_name)

\* the ray of the icon at index i with the given boxes in all_icon_bboxes
MatcherRayWith(i, boxes) ==
    utils_create_search_line(IconCenter(MatcherIcons[i]),
                             frame.icon_search_lines[i].search_line[1],
                             GridProcessor_find_reference_line(
                                 [k \in DOMAIN MatcherIcons |-> IconCenter(MatcherIcons[k])],
                                 call.image_shape, ref_line_min_icons),
                             boxes, call.image_shape[2], call.image_shape[1],
                             search_line_tolerance)

OnImageEdge(p) ==
    \/ p[1] \in {0, call.image_shape[2]}
    \/ p[2] \in {0, call.image_shape[1]}

\* C24: the search ray of an icon, built by detection.utils.create_search_line
\* with the list of all icon boxes, is never cut short by the icon's own box:
\* it is the ray built without that box, and with no other icon in its path it
\* reaches the image edge.
C24_OwnBoxNeverCutsRay ==
    pc \in {"matcher_usages", "matcher_names", "matcher_fallback", "returned", "raised"} =>
        \A i \in DOMAIN frame.icon_search_lines :
            /\ frame.icon_search_lines[i].search_line
                   = MatcherRayWith(i, DeleteAt(MatcherIcons, i))
            /\ MatcherRayWith(i, DeleteAt(MatcherIcons, i)) = MatcherRayWith(i, <<>>)
                   => OnImageEdge(frame.icon_search_lines[i].search_line[3])

(***************************************************************************)
(* The two paths of match_app_name_and_usage                               *)
(***************************************************************************)
\* C25: whenever a reference line is found there is at least one search ray,
\* the fallback never runs and no record with icon = None is produced, even
\* when phase 1 matches no usage and names and usages are present: they are
\* then all returned unmatched.
C25_RayPathExcludesFallback ==
    reference_line # Nil =>
        /\ pc # "fallback"
        /\ usage_to_name_map = <<>>
        /\ pc \notin {"start", "search_lines"} => icon_search_lines # <<>>
        /\ \A m \in DOMAIN matched_data : matched_data[m].app_icon # None
        /\ (pc = "done" /\ usage_matches = <<>>) =>
               /\ matched_data = <<>>
               /\ debug_info.unmatched_app_names = app_names
               /\ debug_info.unmatched_app_usages = app_usages

\* a reference line, a usage exactly 200 from the nearest ray and a name: no
\* usage is matched, nothing is paired, both are returned unmatched
C25_Witness ==
    /\ pc = "done"
    /\ reference_line # Nil
    /\ detections = <<Icon(0, 0, 1, 1), Icon(0, 50, 1, 1), Icon(0, 100, 1, 1),
                      Usage(0, 295, 10, 10), Name(0, 90, 16, 16)>>
    /\ usage_matches = <<>>
    /\ matched_data = <<>>
    /\ debug_info.unmatched_app_usages = <<Usage(0, 295, 10, 10)>>
    /\ debug_info.unmatched_app_names = <<Name(0, 90, 16, 16)>>

(***************************************************************************)
(* The single turn of each usage in phase 1                                *)
(***************************************************************************)
\* the turn of the usage at index u of app_usages in the loop of phase 1 is over
UsageTurnOver(u) == RayPath /\ (Phase1Over \/ (pc = "phase1" /\ u < loop_i))

\* the icon of the nearest in-threshold ray of the usage at index u is held,
\* in the dicts matches and min_distances, by another usage box whose recorded
\* distance satisfies closer(held, own)
NearestRayHeld(u, matches, min_distances, closer(_, _)) ==
    \E i \in NearestRay(app_usages[u], KeysOf(app_icons)) :
        /\ FracLess(RayDistance(app_usages[u], i), ThresholdSq(200))
        /\ \E e \in DOMAIN matches :
               /\ matches[e][2] = Key(icon_search_lines[i].icon)
               /\ matches[e][1] # Key(app_usages[u])
               /\ DictHas(min_distances, matches[e][1])
               /\ closer(DictGet(min_distances, matches[e][1]),
                         RayDistance(app_usages[u], i))

StrictlyCloser(held, own) == FracLess(held, own)

NotFarther(held, own) == ~FracLess(own, held)

\* the usage at index u has had its turn and is without an icon, its nearest
\* in-threshold ray being held by a strictly closer usage
UsageLost(u) ==
    /\ UsageTurnOver(u)
    /\ ~DictHas(usage_matches, Key(app_usages[u]))
    /\ NearestRayHeld(u, usage_matches, min_distances_usage, StrictlyCloser)

\* another icon, claimed by no usage, has its ray within the usage threshold
\* of the usage at index u
UnclaimedRayWithin(u) ==
    \E i \in DOMAIN icon_search_lines :
        /\ i \notin NearestRay(app_usages[u], KeysOf(app_icons))
        /\ FracLess(RayDistance(app_usages[u], i), ThresholdSq(200))
        /\ \A e \in DOMAIN usage_matches :
               usage_matches[e][2] # Key(icon_search_lines[i].icon)

\* C26: in phase 1 a usage box gets an icon only in its own turn and only that
\* of its single nearest in-threshold ray; a usage whose turn is over and
\* that is without an icon has that ray held by a usage that is not farther,
\* and one that lost the icon to a strictly closer usage stays without any
\* icon in every later step and is returned unmatched.
C26_UsageTriedOnceAgainstNearestRay ==
    [][/\ \A e \in DOMAIN usage_matches' :
              \/ \E o \in DOMAIN usage_matches : usage_matches[o] = usage_matches'[e]
              \/ /\ pc = "phase1" /\ loop_i \in DOMAIN app_usages
                 /\ loop_i' = loop_i + 1
                 /\ usage_matches'[e][1] = Key(app_usages[loop_i])
                 /\ NearestWithin(app_usages[loop_i], usage_matches'[e][2],
                                  KeysOf(app_icons), 200)
       /\ \A u \in DOMAIN app_usages :
              /\ ( /\ UsageTurnOver(u)
                   /\ ~DictHas(usage_matches, Key(app_usages[u]))
                   /\ NearestRay(app_usages[u], KeysOf(app_icons)) # {}
                   /\ \E i \in DOMAIN icon_search_lines :
                          FracLess(RayDistance(app_usages[u], i), ThresholdSq(200)) )
                 => NearestRayHeld(u, usage_matches, min_distances_usage, NotFarther)
              /\ UsageLost(u) =>
                     /\ ~DictHas(usage_matches', Key(app_usages[u]))
                     /\ NearestRayHeld(u, usage_matches', min_distances_usage',
                                       StrictlyCloser)
                     /\ \A m \in DOMAIN matched_data' :
                            matched_data'[m].app_usage # app_usages[u]
                     /\ pc' = "done" =>
                            app_usages[u] \in Range(debug_info'.unmatched_app_usages)
      ]_vars

\* usages at 30, 20 and 50 from the ray of the icon at (0, 100), in that
\* order: the first is displaced by the second, the third loses to it, and
\* both stay unmatched although the unclaimed rays y = 0 and y = 50 are
\* within 200 of them
C26_Witness ==
    /\ pc = "done"
    /\ app_icons = <<Icon(0, 0, 1, 1), Icon(0, 50, 1, 1), Icon(0, 100, 1, 1)>>
    /\ app_usages = <<Usage(0, 125, 10, 10), Usage(0, 115, 10, 10), Usage(0, 145, 10, 10)>>
    /\ UsageLost(1) /\ UnclaimedRayWithin(1)
    /\ UsageLost(3) /\ UnclaimedRayWithin(3)
    /\ usage_matches = << <<Key(Usage(0, 115, 10, 10)), Key(Icon(0, 100, 1, 1))>> >>
    /\ Usage(0, 125, 10, 10) \in Range(debug_info.unmatched_app_usages)
    /\ Usage(0, 145, 10, 10) \in Range(debug_info.unmatched_app_usages)

(***************************************************************************)
(* Phase 1 and the order of the usage detections                           *)
(***************************************************************************)
\* the usage detections are distinct boxes
DistinctUsages ==
    \A a, b \in DOMAIN app_usages : a # b => Key(app_usages[a]) # Key(app_usages[b])

\* the squared distance of every usage box from every search ray
RayDistances ==
    [c \in Range(app_usages) \X DOMAIN icon_search_lines |-> RayDistance(c[1], c[2])]

\* no two usages are at equal distance from the same search ray
NoEqualRayDistances(dist) ==
    \A a, b \in Range(app_usages) :
        a # b => \A i \in DOMAIN icon_search_lines : dist[<<a, i>>] # dist[<<b, i>>]

\* ray i is the nearest ray of the usage box d, the first in input order among
\* equally near ones, and strictly within 200 of it
Targets(dist, d, i) ==
    /\ FracLess(dist[<<d, i>>], ThresholdSq(200))
    /\ \A j \in DOMAIN icon_search_lines :
           /\ ~FracLess(dist[<<d, j>>], dist[<<d, i>>])
           /\ j < i => FracLess(dist[<<d, i>>], dist[<<d, j>>])

\* the (usage key, icon key) pairs as a function of the set of usage boxes:
\* each targeted icon goes to the nearest of the usages that target it
PairsOfUsageSet(dist) ==
    { <<Key(c[1]), Key(icon_search_lines[c[2]].icon)>> :
        c \in { c \in Range(app_usages) \X DOMAIN icon_search_lines :
                  /\ Targets(dist, c[1], c[2])
                  /\ \A o \in Range(app_usages) \ {c[1]} :
                         Targets(dist, o, c[2]) =>
                             FracLess(dist[<<c[1], c[2]>>], dist[<<o, c[2]>>]) } }

UnmatchedOfUsageSet(pairs) ==
    { d \in Range(app_usages) : \A q \in pairs : q[1] # Key(d) }

\* C27: for distinct usage boxes of which no two are at equal distance from
\* the same ray, the (usage, icon) pairs of phase 1 and the unmatched usages
\* are determined by the set of usage boxes, whatever their order.
C27_Phase1IndependentOfUsageOrder ==
    (Phase1Over /\ DistinctUsages) =>
        \A dist \in {RayDistances} :
            NoEqualRayDistances(dist) =>
                \A pairs \in {PairsOfUsageSet(dist)} :
                    /\ Range(usage_matches) = pairs
                    /\ { <<Key(matched_data[m].app_usage), Key(matched_data[m].app_icon)>> :
                           m \in DOMAIN matched_data } = pairs
                    /\ unmatched_app_usages_keys =
                           {Key(d) : d \in UnmatchedOfUsageSet(pairs)}
                    /\ pc = "done" => Range(debug_info.unmatched_app_usages) =
                                          UnmatchedOfUsageSet(pairs)

\* usages at 30, 20 and 50 from the ray y = 100, the nearest one in the
\* middle of the list: the first claims the icon and is displaced
C27_Witness ==
    /\ pc = "done"
    /\ app_icons = <<Icon(0, 0, 1, 1), Icon(0, 50, 1, 1), Icon(0, 100, 1, 1)>>
    /\ app_usages = <<Usage(0, 125, 10, 10), Usage(0, 115, 10, 10), Usage(0, 145, 10, 10)>>
    /\ app_names = <<>>
    /\ DistinctUsages /\ NoEqualRayDistances(RayDistances)
    /\ PairsOfUsageSet(RayDistances) =
           { <<Key(Usage(0, 115, 10, 10)), Key(Icon(0, 100, 1, 1))>> }
    /\ Range(usage_matches) = PairsOfUsageSet(RayDistances)
    /\ Range(debug_info.unmatched_app_usages) =
           {Usage(0, 125, 10, 10), Usage(0, 145, 10, 10)}

(***************************************************************************)
(* The fallback and the order of the usage detections                      *)
(***************************************************************************)
\* the second call has returned and both calls went through the fallback
BothFallbacksReturned ==
    /\ pc = "done"
    /\ ret # None
    /\ icon_search_lines = <<>>
    /\ app_names # <<>> /\ app_usages # <<>>

\* the usage boxes are distinct, the name boxes are distinct
DistinctUsagesAndNames ==
    /\ DistinctUsages
    /\ \A a, b \in DOMAIN app_names : a # b => Key(app_names[a]) # Key(app_names[b])

\* all name-usage squared distances are pairwise different
DistancesPairwiseDifferent ==
    \A a, b \in (DOMAIN app_usages) \X (DOMAIN app_names) :
        a # b => CentroidDistSq(app_usages[a[1]], app_names[a[2]])
                     # CentroidDistSq(app_usages[b[1]], app_names[b[2]])

\* no two usages have the same nearest name
NearestNamesDiffer ==
    \A a, b \in DOMAIN app_usages :
        a # b => NearestNameAmong(app_usages[a], DOMAIN app_names)
                     \cap NearestNameAmong(app_usages[b], DOMAIN app_names) = {}

\* the second call returned the same records and the same unmatched names and
\* usages as the first, as sets
SameAsFirstCall ==
    /\ Range(matched_data) = Range(ret.matched_data)
    /\ Range(debug_info.unmatched_app_names) = Range(ret.debug_info.unmatched_app_names)
    /\ Range(debug_info.unmatched_app_usages) = Range(ret.debug_info.unmatched_app_usages)

\* C28 (amended): the fallback pairing does not depend on the order of the
\* usage boxes when the boxes are distinct, all name-usage squared distances
\* are pairwise different and no two usages have the same nearest name: every
\* reordering of the usages gives the same set of (usage, name) records and
\* the same unmatched names and usages.
C28_FallbackIndependentOfOrderWhenNearestNamesDiffer ==
    (BothFallbacksReturned /\ DistinctUsagesAndNames /\ DistancesPairwiseDifferent
        /\ NearestNamesDiffer) => SameAsFirstCall

\* C28 as stated: for distinct boxes with pairwise different name-usage
\* squared distances every reordering of the usages gives the same records
\* and the same unmatched names and usages.
C28_AsStated ==
    (BothFallbacksReturned /\ DistinctUsagesAndNames /\ DistancesPairwiseDifferent)
        => SameAsFirstCall

\* usages at (5, 105) and (5, 45), nearest to the names at (8, 110) and
\* (8, 98), given in both orders: the same two records
C28_Witness ==
    /\ BothFallbacksReturned /\ DistinctUsagesAndNames /\ DistancesPairwiseDifferent
    /\ NearestNamesDiffer
    /\ call.detections = <<Usage(0, 100, 10, 10), Usage(0, 40, 10, 10),
                           Name(0, 90, 16, 16), Name(0, 102, 16, 16)>>
    /\ detections = <<Usage(0, 40, 10, 10), Usage(0, 100, 10, 10),
                      Name(0, 90, 16, 16), Name(0, 102, 16, 16)>>
    /\ Len(matched_data) = 2 /\ Len(ret.matched_data) = 2
    /\ matched_data # ret.matched_data
    /\ SameAsFirstCall

\* usages at (5, 105) and (5, 120), both nearest to the name at (8, 110): in
\* this order both are paired, in the other order only the first
C28_OrderChangesPairing ==
    /\ BothFallbacksReturned /\ DistinctUsagesAndNames /\ DistancesPairwiseDifferent
    /\ call.detections = <<Usage(0, 115, 10, 10), Usage(0, 100, 10, 10),
                           Name(0, 90, 16, 16), Name(0, 102, 16, 16)>>
    /\ Len(ret.matched_data) = 1
    /\ ret.debug_info.unmatched_app_usages = <<Usage(0, 115, 10, 10)>>
    /\ Len(matched_data) = 2
    /\ debug_info.unmatched_app_usages = <<>>

(***************************************************************************)
(* The orientation label of the reference line                             *)
(***************************************************************************)
\* the sum of the squared differences of a coordinate over the pairs of
\* points: n * n times its variance
RECURSIVE PairwiseSpread(_, _)
PairwiseSpread(points, axis) ==
    IF Len(points) < 2 THEN 0
    ELSE SumSeq([i \in 1..(Len(points) - 1) |->
                    (points[1][axis] - points[i + 1][axis])
                        * (points[1][axis] - points[i + 1][axis])])
         + PairwiseSpread(Tail(points), axis)

\* the orientation of the attempt that found the chain: the last one tried
FoundByAttempt == ret.tried[Len(ret.tried)]

LineReturned == CallReturned("find_reference_line") /\ ret.line # Nil

\* C29 (amended): the orientation label of the line returned by
\* find_reference_line is that of the chosen chain, not of the attempt:
\* 'vertical' when the spread (standard deviation) of the chain's y exceeds
\* that of its x, 'horizontal' otherwise, whichever attempt found the chain.
C29_LabelFromSpreadOfChain ==
    LineReturned =>
        ret.line[1] = IF PairwiseSpread(ret.chain, 2) > PairwiseSpread(ret.chain, 1)
                      THEN "vertical" ELSE "horizontal"

\* C29 as stated: the label is the orientation of the attempt in which the
\* chain was found.
C29_AsStated ==
    LineReturned => ret.line[1] = FoundByAttempt

\* the average y-gap, 35, exceeds the average x-gap, 20, so the vertical
\* attempt comes first; it finds the chain (0,15), (30,30), (60,60), whose x
\* spreads more than its y, and the line is labelled horizontal
C29_Witness ==
    /\ LineReturned
    /\ call.icon_centers = << <<0, 15>>, <<30, 30>>, <<60, 60>>, <<0, 120>> >>
    /\ ret.tried = <<"vertical">>
    /\ ret.chain = << <<0, 15>>, <<30, 30>>, <<60, 60>> >>
    /\ PairwiseSpread(ret.chain, 1) > PairwiseSpread(ret.chain, 2)
    /\ ret.line[1] = "horizontal"

(***************************************************************************)
(* The regressor of the least-squares fit                                  *)
(***************************************************************************)
\* the coordinate the fit regresses on: y (2) when the chain's y-spread
\* exceeds its x-spread, otherwise x (1)
Regressor(chain) ==
    IF PairwiseSpread(chain, 2) > PairwiseSpread(chain, 1) THEN 2 ELSE 1

ValuesOf(chain, axis) == {chain[i][axis] : i \in DOMAIN chain}

\* C30: the fit of find_reference_line is never degenerate: in every chain
\* that try_orientation returns, in either orientation, the coordinate used
\* as regressor takes at least two distinct values; the chain the fit is
\* handed is one of them, so the system is not singular and a line is
\* returned.
C30_RegressorTakesTwoValues ==
    CallReturned("find_reference_line") =>
        \A o \in {"vertical", "horizontal"} :
            \A chain \in {try_orientation(call.icon_centers, o, ref_line_min_icons)} :
                chain # Nil =>
                    /\ Cardinality(ValuesOf(chain, Regressor(chain))) >= 2
                    /\ (ret.tried # <<>> /\ o = FoundByAttempt) =>
                           /\ chain = ret.chain
                           /\ ret.line # Nil

\* a column found by the vertical attempt, one centre given twice: x takes
\* a single value, the regressor is y, which takes three
C30_Witness ==
    /\ LineReturned
    /\ call.icon_centers = << <<0, 0>>, <<0, 30>>, <<0, 30>>, <<0, 60>> >>
    /\ ret.tried = <<"vertical">>
    /\ ret.chain = << <<0, 0>>, <<0, 30>>, <<0, 60>> >>
    /\ Regressor(ret.chain) = 2
    /\ ValuesOf(ret.chain, 1) = {0}
    /\ ValuesOf(ret.chain, 2) = {0, 30, 60}

====
